---- MODULE Spec2Model ----
(***************************************************************************)
(* A model of the bot-configurator web UI: the storage facade over the     *)
(* per-user homeserver (BotBuilderStorage on PubkyClient), the update      *)
(* mutations of the CRUD hooks, the mini-indexer (users.json, index.json)  *)
(* and its search, and the git URL parser of the service loader.           *)
(*                                                                         *)
(* Strings that the code takes apart (paths, pubky:// addresses, URLs,     *)
(* search text) are sequences of tokens; a "/" is always a token of its    *)
(* own, so that startsWith, endsWith, split("/") and replace(/\/+/g, "/")  *)
(* are computed as the code computes them.                                 *)
(***************************************************************************)
EXTENDS Integers, Sequences, FiniteSets, TLC

VARIABLES
    hs,          \* the homeserver: address (token sequence) -> stored JSON document
    sdkListFmt,  \* what publicStorage.list() returns: "uri" (full addresses) or "name"
    lastWrite,   \* history: per kind and id, the document last saved, Null once deleted
    out,         \* the storage call made last, with its result
    mut,         \* the update mutations in flight (useBotConfigs.updateMutation, ...)
    race,        \* history of the update mutations: the store before them, the order of their saves
    usersFile,   \* data/users.json: the registered users, or Absent
    indexFile,   \* data/index.json: [entities, lastFullIndexAt], or Absent
    istate,      \* Indexer.state, the in-memory copy
    iout,        \* the indexer call made last, with its result
    clock,       \* new Date() on the indexer's server: 1..MaxClock, never going back
    gitArg,      \* the string handed to parseGitUrl
    gitOut,      \* what parseGitUrl returned for it, None before the call
    tsSource,    \* the TypeScript source handed to parseManifestFromSource
    parseOut,    \* what parseManifestFromSource made of it, None before the call
    req,         \* the body of the request to POST /api/services/load
    web,         \* what a fetch of constants.ts, service.ts, mod.ts answers
    rt,          \* the route handling the request: where it is, its locals, its response
    auth,        \* the state of useAuthStore
    persisted,   \* localStorage["bot-configurator-auth"]: Null or [publicKey, sessionExport]
    calls,       \* the calls of restoreSessionFromExport: where each is, what it read, and
                 \* for how many seconds its timer has been running
    hstore,      \* the signed-in user's documents as the CRUD hooks reach them through
                 \* BotBuilderStorage: per id a document or Null, for the kind of
                 \* document whose pages are open
    qcache,      \* the QueryClient's cache: per query key Null, or [data, isInvalidated]
    hclock,      \* new Date() in the browser, counting the mutations started
    hout,        \* the hook call made last: its arguments, the storage calls it made, its outcome
    vArg,        \* the (config, schema) handed to validateConfig
    vOut,        \* what validateConfig returned for it, None before the call
    dArg,        \* the schema handed to getSchemaDefault
    dOut,        \* what getSchemaDefault returned for it, None before the call
    tasks,       \* the requests to the indexer's routes that the server is handling, each
                 \* between two awaits: its call, where it is, its locals, its result
    resolver     \* parseManifestFromSource call by call: the calls of parseSchema that have
                 \* not returned, the schemas parsed so far, the place of the for loop

storageVars == <<hs, sdkListFmt, lastWrite, out>>
mutVars == <<mut, race>>
indexerIdle == <<usersFile, indexFile, istate, iout, clock>>
gitVars == <<gitArg, gitOut>>
parserVars == <<tsSource, parseOut>>
\* the variables of the parts that come after the git URL parser
loadVars == <<req, web, rt>>
authVars == <<auth, persisted, calls>>
hookVars == <<hstore, qcache, hclock, hout>>
validateVars == <<vArg, vOut>>
defaultVars == <<dArg, dOut>>
\* the variables of the parts that come after validateConfig
\* the variables of the parts that come after getSchemaDefault
afterDefaultVars == <<tasks, resolver>>
afterValidateVars == <<defaultVars, afterDefaultVars>>
\* the variables of the parts that come after the CRUD hooks
afterHookVars == <<validateVars, afterValidateVars>>
\* the variables of the parts that come after the auth store
afterAuthVars == <<hookVars, afterHookVars>>
laterVars == <<parserVars, loadVars, authVars, afterAuthVars>>
\* the variables of the parts that come after the manifest parser
afterParserVars == <<loadVars, authVars, afterAuthVars>>
\* the variables of the parts that come before the load route
beforeLoadVars == <<storageVars, mutVars, indexerIdle, gitVars, parserVars>>
afterLoadVars == <<authVars, afterAuthVars>>
\* the variables of the parts that come before the auth store
beforeAuthVars == <<beforeLoadVars, loadVars>>
\* the variables of all parts but the auth store
aroundAuthVars == <<beforeAuthVars, afterAuthVars>>

-----------------------------------------------------------------------------
(* Bounds of the model *)

\* updatedAt values are 1..MaxTime
MaxTime == 2
\* at most this many files on the homeserver
MaxFiles == 2
\* the indexer's clock reads 1..MaxClock
MaxClock == 2
\* an index holds at most this many entities when it is searched
MaxEntities == 3
\* a repository URL has at most this many path segments after owner and repo
MaxTail == 4
\* a schema literal of the sources has at most this many pieces (properties, comments)
MaxPieces == 3
\* an array of schema references has at most this many elements
MaxElems == 2

-----------------------------------------------------------------------------
(* Generic helpers on token sequences *)

Null == [isNull |-> TRUE]
None == [isNone |-> TRUE]
Undefined == "undefined"

\* the parts that come after the git URL parser, before any call to them
ParserIdle == tsSource = <<>> /\ parseOut = None
LoadIdle ==
    /\ req = [json |-> "null"]
    /\ web = [f \in {"constants.ts", "service.ts", "mod.ts"} |-> [kind |-> "throws", text |-> <<"fetch failed">>]]
    /\ rt = [pc |-> "start", gitUrl |-> <<>>, constantsUrl |-> Null, serviceUrl |-> Null,
             modUrl |-> Null, constantsContent |-> <<>>, serviceContent |-> <<>>,
             manifest |-> Null, errors |-> <<>>, fetched |-> <<>>, parses |-> <<>>, response |-> None]
AuthIdle ==
    /\ auth = [isAuthenticated |-> FALSE, publicKey |-> Null, keypair |-> Null, session |-> Null,
               sessionExport |-> Null, isHydrated |-> FALSE, isRestoringSession |-> FALSE]
    /\ persisted = Null
    /\ calls = <<>>
HooksIdle ==
    /\ hstore = <<>>
    /\ qcache = <<>>
    /\ hclock = 0
    /\ hout = None
ValidateIdle == vArg = None /\ vOut = None
DefaultIdle == dArg = None /\ dOut = None
AfterDefaultIdle == tasks = <<>> /\ resolver = <<>>
AfterValidateIdle == DefaultIdle /\ AfterDefaultIdle
AfterHooksIdle == ValidateIdle /\ AfterValidateIdle
AfterAuthIdle == HooksIdle /\ AfterHooksIdle
AfterLoadIdle == AuthIdle /\ AfterAuthIdle
AfterParserIdle == LoadIdle /\ AfterLoadIdle
LaterIdle == ParserIdle /\ AfterParserIdle

\* doc.f, undefined when the property is absent
FieldOf(doc, f) == IF f \in DOMAIN doc THEN doc[f] ELSE Undefined

StartsWith(s, p) == Len(s) >= Len(p) /\ SubSeq(s, 1, Len(p)) = p
EndsWithTok(s, t) == Len(s) > 0 /\ s[Len(s)] = t
Drop(s, n) == SubSeq(s, n + 1, Len(s))

\* String.prototype.indexOf for one token, 1-based; 0 when absent
IndexOfTok(s, t) ==
    IF \E i \in 1..Len(s) : s[i] = t
    THEN CHOOSE i \in 1..Len(s) : s[i] = t /\ \A j \in 1..(i - 1) : s[j] # t
    ELSE 0

\* path.replace(/\/+/g, "/"): every run of slashes becomes one slash
RECURSIVE CollapseSlashes(_)
CollapseSlashes(s) ==
    IF Len(s) <= 1 THEN s
    ELSE IF s[1] = "/" /\ s[2] = "/" THEN CollapseSlashes(Tail(s))
    ELSE <<s[1]>> \o CollapseSlashes(Tail(s))

RECURSIVE SetToSeq(_)
SetToSeq(S) ==
    IF S = {} THEN <<>>
    ELSE LET x == CHOOSE y \in S : TRUE IN <<x>> \o SetToSeq(S \ {x})

\* Array.prototype.sort with (a, b) => time(b.updatedAt) - time(a.updatedAt):
\* non-increasing updatedAt, stable
RECURSIVE InsertByUpdatedAt(_, _)
InsertByUpdatedAt(sorted, d) ==
    IF sorted = <<>> THEN <<d>>
    ELSE IF sorted[1].updatedAt >= d.updatedAt
         THEN <<sorted[1]>> \o InsertByUpdatedAt(Tail(sorted), d)
         ELSE <<d>> \o sorted

RECURSIVE SortByUpdatedAtDesc(_)
SortByUpdatedAtDesc(s) ==
    IF s = <<>> THEN <<>>
    ELSE InsertByUpdatedAt(SortByUpdatedAtDesc(SubSeq(s, 1, Len(s) - 1)), s[Len(s)])

-----------------------------------------------------------------------------
(* lib/config.ts: the paths of the three document kinds *)

Kinds == {"config", "service_config", "dataset"}

basePath == <<"/", "pub", "/", "bot_builder">>

KindPath(kind) ==
    CASE kind = "config" -> basePath \o <<"/", "configs">>
      [] kind = "service_config" -> basePath \o <<"/", "service_configs">>
      [] kind = "dataset" -> basePath \o <<"/", "datasets">>

-----------------------------------------------------------------------------
(* PubkyClient *)

\* JSON.stringify in putJson followed by JSON.parse in getJson: a property whose
\* value is undefined is not serialised
\* (description?: string is the one optional field the modelled documents carry)
OptionalFields == {"description"}

JsonRoundTrip(doc) ==
    LET keep == {f \in DOMAIN doc : ~(f \in OptionalFields /\ doc[f] = Undefined)}
    IN [f \in keep |-> doc[f]]

\* PubkyClient.parseUri
parseUri(uri) ==
    IF ~StartsWith(uri, <<"pubky://">>) THEN Null
    ELSE LET withoutScheme == Drop(uri, 1)
             slashIndex == IndexOfTok(withoutScheme, "/")
         IN IF slashIndex = 0
            THEN [publicKey |-> withoutScheme, path |-> <<"/">>]
            ELSE [publicKey |-> SubSeq(withoutScheme, 1, slashIndex - 1),
                  path |-> Drop(withoutScheme, slashIndex - 1)]

\* the path that PubkyClient.write and PubkyClient.delete hand to session.storage:
\* the path part of a pubky:// address, with a leading slash and no double slashes
SessionPathNoParse(path) ==
    CollapseSlashes(IF StartsWith(path, <<"/">>) THEN path ELSE <<"/">> \o path)

SessionPath(path) ==
    LET parsed == IF StartsWith(path, <<"pubky://">>) THEN parseUri(path) ELSE None
        pathOnly == IF parsed = None THEN path ELSE parsed.path
        slashed == IF StartsWith(pathOnly, <<"/">>) THEN pathOnly ELSE <<"/">> \o pathOnly
    IN CollapseSlashes(slashed)

\* session.storage addresses the files of the session's own user
SessionAddress(session, path) == <<"pubky://", session>> \o SessionPath(path)

\* PubkyClient.read: the stored document, or null on a 404
read(store, address) ==
    IF address \in DOMAIN store THEN store[address] ELSE Null

\* PubkyClient.list: the files directly under the directory, as the SDK names them
list(store, fmt, path) ==
    LET dirPath == IF EndsWithTok(path, "/") THEN path ELSE path \o <<"/">>
        under == {a \in DOMAIN store : StartsWith(a, dirPath)}
        files == SetToSeq(under)
    IN [i \in 1..Len(files) |->
           IF fmt = "uri" THEN files[i] ELSE Drop(files[i], Len(dirPath))]

-----------------------------------------------------------------------------
(* BotBuilderStorage, for a storage built on (session, publicKey) *)

IdField(kind) == IF kind = "dataset" THEN "id" ELSE "configId"

DocAddress(publicKey, kind, id) ==
    <<"pubky://", publicKey>> \o KindPath(kind) \o <<"/", id, ".json">>

\* getConfig / getServiceConfig / getDataset
getDoc(store, publicKey, kind, id) == read(store, DocAddress(publicKey, kind, id))

\* the address an entry of the listing is read from
ListedAddressNoUriCheck(base, file) == base \o <<"/">> \o file

ListedAddress(base, file) ==
    IF StartsWith(file, <<"pubky://">>) THEN file ELSE base \o <<"/">> \o file

\* file.split('/').pop().replace(/\.json$/, '')
FilenameId(file) ==
    LET slashes == {i \in 1..Len(file) : file[i] = "/"}
        from == IF slashes = {} THEN 0 ELSE CHOOSE i \in slashes : \A j \in slashes : j <= i
        filename == Drop(file, from)
        stem == IF EndsWithTok(filename, ".json")
                THEN SubSeq(filename, 1, Len(filename) - 1) ELSE filename
    IN IF Len(stem) = 1 THEN stem[1] ELSE stem

\* one pass of the for loop of listConfigs / listServiceConfigs / listDatasets
RECURSIVE ListLoop(_, _, _, _, _)
ListLoop(store, kind, base, files, acc) ==
    IF files = <<>> THEN acc
    ELSE LET file == files[1]
             data == read(store, ListedAddress(base, file))
             filled == IF kind # "dataset" /\ "configId" \notin DOMAIN data
                       THEN [f \in DOMAIN data \cup {"configId"} |->
                                IF f = "configId" THEN FilenameId(file) ELSE data[f]]
                       ELSE data
         IN IF ~EndsWithTok(file, ".json") \/ data = Null
            THEN ListLoop(store, kind, base, Tail(files), acc)
            ELSE ListLoop(store, kind, base, Tail(files), Append(acc, filled))

\* listConfigs / listServiceConfigs / listDatasets
listDocs(store, fmt, publicKey, kind) ==
    LET base == <<"pubky://", publicKey>> \o KindPath(kind)
    IN SortByUpdatedAtDesc(ListLoop(store, kind, base, list(store, fmt, base), <<>>))

-----------------------------------------------------------------------------
(* The storage of one signed-in user: saves, deletes, gets and lists *)

Me == "pkA"
Ids == {"id1", "id2"}
Names == {"n1", "n2"}
Descriptions == {"d1", Undefined}

Doc(kind, i, n, d, t) ==
    [f \in {IdField(kind), "name", "description", "updatedAt"} |->
        CASE f = IdField(kind) -> i
          [] f = "name" -> n
          [] f = "description" -> d
          [] f = "updatedAt" -> t]

\* the documents a caller hands to saveConfig / saveServiceConfig / saveDataset
StorageDocs(kind) ==
    {Doc(kind, i, "n1", d, t) : i \in Ids, d \in Descriptions, t \in 1..MaxTime}

Put(store, address, doc) ==
    [a \in DOMAIN store \cup {address} |-> IF a = address THEN doc ELSE store[a]]

Remove(store, address) == [a \in DOMAIN store \ {address} |-> store[a]]

InitStorage ==
    /\ hs = <<>>
    /\ sdkListFmt \in {"uri", "name"}
    /\ lastWrite = [k \in Kinds, i \in Ids |-> Null]
    /\ out = None

\* saveConfig / saveServiceConfig / saveDataset: pubkyClient.write(session, path, doc)
Save(kind, doc) ==
    LET id == doc[IdField(kind)]
        address == SessionAddress(Me, DocAddress(Me, kind, id))
    IN /\ out = None
       /\ address \in DOMAIN hs \/ Cardinality(DOMAIN hs) < MaxFiles
       /\ hs' = Put(hs, address, JsonRoundTrip(doc))
       /\ lastWrite' = [lastWrite EXCEPT ![kind, id] = doc]
       /\ out' = [op |-> "save", kind |-> kind, id |-> id]
       /\ UNCHANGED <<sdkListFmt, mutVars, indexerIdle, gitVars, laterVars>>

\* deleteConfig / deleteServiceConfig / deleteDataset: pubkyClient.delete(session, path)
Delete(kind, id) ==
    LET address == SessionAddress(Me, DocAddress(Me, kind, id))
    IN /\ out = None
       /\ hs' = Remove(hs, address)
       /\ lastWrite' = [lastWrite EXCEPT ![kind, id] = Null]
       /\ out' = [op |-> "delete", kind |-> kind, id |-> id]
       /\ UNCHANGED <<sdkListFmt, mutVars, indexerIdle, gitVars, laterVars>>

\* getConfig / getServiceConfig / getDataset
Get(kind, id) ==
    /\ out = None
    /\ out' = [op |-> "get", kind |-> kind, id |-> id, result |-> getDoc(hs, Me, kind, id)]
    /\ UNCHANGED <<hs, sdkListFmt, lastWrite, mutVars, indexerIdle, gitVars, laterVars>>

\* listConfigs / listServiceConfigs / listDatasets
List(kind) ==
    /\ out = None
    /\ out' = [op |-> "list", kind |-> kind, docs |-> listDocs(hs, sdkListFmt, Me, kind)]
    /\ UNCHANGED <<hs, sdkListFmt, lastWrite, mutVars, indexerIdle, gitVars, laterVars>>

\* the awaited call returns to its caller, which makes its next call after that
Return ==
    /\ out # None
    /\ out' = None
    /\ UNCHANGED <<hs, sdkListFmt, lastWrite, mutVars, indexerIdle, gitVars, laterVars>>

NextStorage ==
    \/ Return
    \/ \E kind \in Kinds : \E doc \in StorageDocs(kind) : Save(kind, doc)
    \/ \E kind \in Kinds : \E id \in Ids : Delete(kind, id)
    \/ \E kind \in Kinds : \E id \in Ids : Get(kind, id)
    \/ \E kind \in Kinds : List(kind)

-----------------------------------------------------------------------------
(* The update mutations of useBotConfigs, useServiceConfigs and useDatasets:    *)
(* mutationFn reads the existing document, merges the form data over it, saves. *)
(* The two awaits (the read, the save) are two steps, so that two mutations     *)
(* started from the UI can interleave.                                          *)

Mutators == {"m1", "m2"}
Other(m) == CHOOSE o \in Mutators : o # m

\* Partial<FormData>: any subset of the editable fields
FormData ==
    {[f \in fs |-> IF f = "name" THEN n ELSE d] :
        fs \in SUBSET {"name", "description"}, n \in Names, d \in Descriptions}

\* { ...data, ...existing, updatedAt }: the spreads in the wrong order
MergeExistingWins(existing, data, now) ==
    [f \in DOMAIN existing \cup DOMAIN data \cup {"updatedAt"} |->
        IF f = "updatedAt" THEN now
        ELSE IF f \in DOMAIN existing THEN existing[f] ELSE data[f]]

\* { ...existing, ...data, updatedAt: new Date().toISOString() }
Merge(existing, data, now) ==
    [f \in DOMAIN existing \cup DOMAIN data \cup {"updatedAt"} |->
        IF f = "updatedAt" THEN now
        ELSE IF f \in DOMAIN data THEN data[f] ELSE existing[f]]

Idle == [pc |-> "idle"]
InFlight(m) == mut[m].pc \in {"reading", "saving"}

BaseDoc(kind) == Doc(kind, "id1", "n1", "d1", 1)

InitMutations ==
    /\ mut = [m \in Mutators |-> Idle]
    /\ race = [base |-> <<>>, order |-> <<>>, overlapped |-> FALSE]

\* the indexer before its first call, with no data directory
InitIndexerIdle ==
    /\ usersFile = [exists |-> FALSE]
    /\ indexFile = [exists |-> FALSE]
    /\ istate = [users |-> <<>>, entities |-> <<>>, lastFullIndexAt |-> 0]
    /\ iout = None
    /\ clock = 1
    /\ gitArg = <<>>
    /\ gitOut = None
    /\ LaterIdle

\* the store the update mutations start from: one saved document of one kind
InitUpdate ==
    /\ \E kind \in Kinds :
         hs = Put(<<>>, SessionAddress(Me, DocAddress(Me, kind, "id1")), BaseDoc(kind))
    /\ sdkListFmt \in {"uri", "name"}
    /\ lastWrite = [k \in Kinds, i \in Ids |-> Null]
    /\ out = None
    /\ InitMutations
    /\ InitIndexerIdle

\* update({id, data}): mutationFn runs up to its first await, the read is on its way
UpdateStart(m, kind, id, data) ==
    /\ mut[m].pc = "idle"
    /\ mut' = [mut EXCEPT ![m] = [pc |-> "reading", kind |-> kind, id |-> id, data |-> data]]
    /\ race' = IF mut[Other(m)].pc = "idle"
               THEN [base |-> hs, order |-> <<>>, overlapped |-> FALSE]
               ELSE IF InFlight(Other(m)) THEN [race EXCEPT !.overlapped = TRUE]
               ELSE race
    /\ UNCHANGED <<storageVars, indexerIdle, gitVars, laterVars>>

\* the read is answered: "not found" is thrown, or the merged document is built
UpdateRead(m) ==
    /\ mut[m].pc = "reading"
    /\ LET existing == getDoc(hs, Me, mut[m].kind, mut[m].id)
       IN IF existing = Null
          THEN mut' = [mut EXCEPT ![m] = [pc |-> "failed", kind |-> mut[m].kind, id |-> mut[m].id]]
          ELSE \E now \in 1..MaxTime :
                 mut' = [mut EXCEPT ![m] =
                           [pc |-> "saving", kind |-> mut[m].kind, id |-> mut[m].id,
                            data |-> mut[m].data, readAt |-> Len(race.order),
                            updated |-> Merge(existing, mut[m].data, now)]]
    /\ UNCHANGED <<storageVars, race, indexerIdle, gitVars, laterVars>>

\* the save is answered
UpdateSave(m) ==
    /\ mut[m].pc = "saving"
    /\ LET doc == mut[m].updated
           kind == mut[m].kind
           address == SessionAddress(Me, DocAddress(Me, kind, doc[IdField(kind)]))
       IN /\ hs' = Put(hs, address, JsonRoundTrip(doc))
          /\ lastWrite' = [lastWrite EXCEPT ![kind, doc[IdField(kind)]] = doc]
    /\ mut' = [mut EXCEPT ![m].pc = "done"]
    /\ race' = [race EXCEPT !.order = Append(@, m)]
    /\ out' = [op |-> "save", kind |-> mut[m].kind, id |-> mut[m].id]
    /\ UNCHANGED <<sdkListFmt, indexerIdle, gitVars, laterVars>>

NextUpdate ==
    \/ \E m \in Mutators : \E kind \in Kinds : \E id \in Ids : \E data \in FormData :
         UpdateStart(m, kind, id, data)
    \/ \E m \in Mutators : UpdateRead(m)
    \/ \E m \in Mutators : UpdateSave(m)

-----------------------------------------------------------------------------
(* lib/indexer: the Indexer singleton, its two JSON files, the homeservers it     *)
(* polls. A timestamp 0 stands for a timestamp that is not set (undefined).       *)

PublicKeys == {"pkA", "pkB"}
IndexedKinds == <<"service_config", "dataset">>
\* a JSON file of the data directory: missing, or holding a value
Absent == [exists |-> FALSE]
UsersJson(users) == [exists |-> TRUE, users |-> users]
IndexJson(entities, lastFullIndexAt) ==
    [exists |-> TRUE, entities |-> entities, lastFullIndexAt |-> lastFullIndexAt]

\* the documents a user's storage has saved (useServiceConfigs / useDatasets create)
ServiceConfigDoc(pk, id, t) ==
    [configId |-> id, name |-> "svc", description |-> "d1", tags |-> <<"t1">>,
     source |-> [type |-> "github", location |-> "loc"],
     manifest |-> [serviceId |-> "s", kind |-> "single_command"],
     kind |-> "single_command", author |-> pk, updatedAt |-> t]

DatasetDoc(pk, id, t) ==
    [id |-> id, name |-> "data", tags |-> <<>>, author |-> pk, updatedAt |-> t]

UserDoc(pk, kind, id, t) ==
    IF kind = "service_config" THEN ServiceConfigDoc(pk, id, t) ELSE DatasetDoc(pk, id, t)

\* Indexer.load
load(st, uf, xf) ==
    [users |-> IF uf = Absent THEN <<>> ELSE uf.users,
     entities |-> IF xf = Absent THEN <<>> ELSE xf.entities,
     lastFullIndexAt |-> IF xf = Absent THEN st.lastFullIndexAt ELSE xf.lastFullIndexAt]

\* Indexer.save: what users.json and index.json hold afterwards
savedUsers(st) == UsersJson(st.users)
savedIndex(st) == IndexJson(st.entities, st.lastFullIndexAt)

HasUser(users, pk) == \E i \in 1..Len(users) : users[i].publicKey = pk

\* registerUser without the check for an existing entry
registerInListNoCheck(users, pk, now) ==
    Append(users, [publicKey |-> pk, registeredAt |-> now, lastIndexedAt |-> 0])

\* Indexer.registerUser, on the loaded list
registerInList(users, pk, now) ==
    IF HasUser(users, pk) THEN users
    ELSE Append(users, [publicKey |-> pk, registeredAt |-> now, lastIndexedAt |-> 0])

\* upsertEntity without the search for the uri: the entity is always pushed
upsertEntityPush(entities, entity) == Append(entities, entity)

\* Indexer.upsertEntity
upsertEntity(entities, entity) ==
    IF \E i \in 1..Len(entities) : entities[i].uri = entity.uri
    THEN LET index == CHOOSE i \in 1..Len(entities) :
                        /\ entities[i].uri = entity.uri
                        /\ \A j \in 1..(i - 1) : entities[j].uri # entity.uri
         IN [entities EXCEPT ![index] = entity]
    ELSE Append(entities, entity)

\* the summary indexUser builds of a document read at fullPath
Summary(kind, pk, fullPath, data, now) ==
    [uri |-> fullPath, type |-> kind, owner |-> pk, name |-> data.name,
     description |-> FieldOf(data, "description"),
     tags |-> data.tags,
     source |-> IF kind = "service_config" THEN data.source.location ELSE Undefined,
     kind |-> IF kind = "service_config" THEN data.manifest.kind ELSE Undefined,
     indexedAt |-> now, updatedAt |-> data.updatedAt]

\* one for loop of indexUser over a listing: acc is [entities, indexed]
RECURSIVE IndexLoop(_, _, _, _, _, _, _)
IndexLoop(store, kind, pk, dir, files, now, acc) ==
    IF files = <<>> THEN acc
    ELSE LET file == files[1]
             fullPath == dir \o <<"/">> \o file
             data == read(store, fullPath)
         IN IF ~EndsWithTok(file, ".json") \/ data = Null
            THEN IndexLoop(store, kind, pk, dir, Tail(files), now, acc)
            ELSE IndexLoop(store, kind, pk, dir, Tail(files), now,
                     [entities |-> upsertEntity(acc.entities, Summary(kind, pk, fullPath, data, now)),
                      indexed |-> acc.indexed + 1])

\* Indexer.indexUser on the in-memory state: [state, indexed]
indexUser(store, fmt, st, pk, now) ==
    LET scPath == <<"pubky://", pk>> \o KindPath("service_config")
        dsPath == <<"pubky://", pk>> \o KindPath("dataset")
        afterSc == IndexLoop(store, "service_config", pk, scPath, list(store, fmt, scPath), now,
                             [entities |-> st.entities, indexed |-> 0])
        afterDs == IndexLoop(store, "dataset", pk, dsPath, list(store, fmt, dsPath), now, afterSc)
        users == [i \in 1..Len(st.users) |->
                    IF st.users[i].publicKey = pk
                    THEN [st.users[i] EXCEPT !.lastIndexedAt = now] ELSE st.users[i]]
    IN [state |-> [users |-> users, entities |-> afterDs.entities,
                   lastFullIndexAt |-> st.lastFullIndexAt],
        indexed |-> afterDs.indexed]

\* the for loop of reindexAll over the loaded users: acc is [state, counts, calls]
RECURSIVE ReindexLoop(_, _, _, _, _)
ReindexLoop(store, fmt, i, now, acc) ==
    IF i > Len(acc.state.users) THEN acc
    ELSE LET pk == acc.state.users[i].publicKey
             r == indexUser(store, fmt, acc.state, pk, now)
         IN ReindexLoop(store, fmt, i + 1, now,
                [state |-> r.state, counts |-> Append(acc.counts, r.indexed),
                 calls |-> Append(acc.calls, pk)])

RECURSIVE SumSeq(_)
SumSeq(s) == IF s = <<>> THEN 0 ELSE s[1] + SumSeq(Tail(s))

-----------------------------------------------------------------------------
(* The indexer's operations, each running to completion before the next *)

EmptyState == [users |-> <<>>, entities |-> <<>>, lastFullIndexAt |-> 0]

\* the homeservers of the users: pkA may hold a service config and a dataset, pkB a
\* service config;
\* pkA's service_configs directory may also hold a file that is not JSON
UserStores ==
    LET slots == {<<"pkA", "service_config">>, <<"pkA", "dataset">>, <<"pkB", "service_config">>}
        notes == <<"pubky://", "pkA">> \o KindPath("service_config") \o <<"/", "notes", ".txt">>
    IN {[a \in {<<"pubky://", sl[1]>> \o KindPath(sl[2]) \o <<"/", "id1", ".json">> : sl \in chosen}
             \cup (IF txt THEN {notes} ELSE {}) |->
            IF a = notes THEN [text |-> "notes"]
            ELSE UserDoc(a[2], IF a[8] = "service_configs" THEN "service_config" ELSE "dataset",
                         "id1", 1)] :
        chosen \in SUBSET slots, txt \in BOOLEAN}

InitIndexer ==
    /\ hs \in UserStores
    /\ sdkListFmt \in {"uri", "name"}
    /\ usersFile \in {Absent, UsersJson(<<[publicKey |-> "pkA", registeredAt |-> 1, lastIndexedAt |-> 0]>>)}
    /\ indexFile = Absent
    /\ istate = EmptyState
    /\ iout = None
    /\ clock = 1
    /\ lastWrite = [k \in Kinds, i \in Ids |-> Null]
    /\ out = None
    /\ InitMutations
    /\ gitArg = <<>>
    /\ gitOut = None
    /\ LaterIdle

\* time passes between two calls, or not
Later == clock' \in {clock, IF clock < MaxClock THEN clock + 1 ELSE clock}

IndexerFrame == Later /\ UNCHANGED <<hs, sdkListFmt, lastWrite, out, mutVars, gitVars, laterVars>>

\* Indexer.registerUser(publicKey)
RegisterUser(pk) ==
    \E now \in {clock} :
        LET loaded == load(istate, usersFile, indexFile)
            users == registerInList(loaded.users, pk, now)
            st == [loaded EXCEPT !.users = users]
        IN /\ istate' = st
           /\ IF HasUser(loaded.users, pk)
              THEN UNCHANGED <<usersFile, indexFile>>
              ELSE usersFile' = savedUsers(st) /\ indexFile' = savedIndex(st)
           /\ iout' = [op |-> "registerUser", pk |-> pk, at |-> now, before |-> loaded.users]
           /\ IndexerFrame

\* Indexer.indexUser(publicKey), as the register route calls it after registerUser
IndexUser(pk) ==
    /\ HasUser(istate.users, pk)
    /\ \E now \in {clock} :
        LET r == indexUser(hs, sdkListFmt, istate, pk, now)
        IN /\ istate' = r.state
           /\ usersFile' = savedUsers(r.state)
           /\ indexFile' = savedIndex(r.state)
           /\ iout' = [op |-> "indexUser", pk |-> pk, indexed |-> r.indexed]
           /\ IndexerFrame

\* Indexer.reindexAll()
ReindexAll ==
    \E now \in {clock} :
        LET loaded == load(istate, usersFile, indexFile)
            r == ReindexLoop(hs, sdkListFmt, 1, now,
                             [state |-> loaded, counts |-> <<>>, calls |-> <<>>])
            st == [r.state EXCEPT !.lastFullIndexAt = now]
        IN /\ istate' = st
           /\ usersFile' = savedUsers(st)
           /\ indexFile' = savedIndex(st)
           /\ iout' = [op |-> "reindexAll", users |-> Len(st.users),
                       entities |-> SumSeq(r.counts), counts |-> r.counts, calls |-> r.calls]
           /\ IndexerFrame

NextIndexer ==
    \/ \E pk \in PublicKeys : RegisterUser(pk)
    \/ \E pk \in PublicKeys : IndexUser(pk)
    \/ ReindexAll

-----------------------------------------------------------------------------
(* Indexer.search: strings that are searched are sequences of characters *)

\* a text field that is not set (description?, source?)
NoText == <<Undefined>>

\* String.toLowerCase on the characters the indexed texts are written with
LowerChar(c) == CASE c = "A" -> "a" [] c = "B" -> "b" [] c = "C" -> "c" [] OTHER -> c
toLowerCase(s) == [i \in 1..Len(s) |-> LowerChar(s[i])]

\* String.includes
includes(s, q) == \E i \in 1..(Len(s) - Len(q) + 1) : SubSeq(s, i, i + Len(q) - 1) = q

\* String.trim
RECURSIVE trimStart(_)
trimStart(s) == IF s # <<>> /\ s[1] = " " THEN trimStart(Tail(s)) ELSE s
RECURSIVE trimEnd(_)
trimEnd(s) == IF s # <<>> /\ s[Len(s)] = " " THEN trimEnd(SubSeq(s, 1, Len(s) - 1)) ELSE s
trim(s) == trimEnd(trimStart(s))

\* Array.slice(start, end), 0-based, negative indexes counting from the end
slice(s, start, end) ==
    LET len == Len(s)
        from == IF start < 0 THEN (IF len + start < 0 THEN 0 ELSE len + start)
                ELSE (IF start > len THEN len ELSE start)
        to == IF end < 0 THEN (IF len + end < 0 THEN 0 ELSE len + end)
              ELSE (IF end > len THEN len ELSE end)
    IN SubSeq(s, from + 1, to)

\* query.f as a condition: the property is there and is not the empty string
Given(query, f) == f \in DOMAIN query /\ query[f] # ""
\* query.f || d for a number
OrDefault(query, f, d) == IF f \in DOMAIN query /\ query[f] # 0 THEN query[f] ELSE d

defaultLimit == 20

\* the filter on the owner switched off
filterByOwnerOff(results, query) == results

filterByType(results, query) ==
    IF Given(query, "type") THEN SelectSeq(results, LAMBDA e : e.type = query.type) ELSE results
filterByKind(results, query) ==
    IF Given(query, "kind") THEN SelectSeq(results, LAMBDA e : e.kind = query.kind) ELSE results
filterByOwner(results, query) ==
    IF Given(query, "owner") THEN SelectSeq(results, LAMBDA e : e.owner = query.owner) ELSE results

filterByTags(results, query) ==
    IF "tags" \in DOMAIN query /\ Len(query.tags) > 0
    THEN SelectSeq(results, LAMBDA e :
             \E i \in 1..Len(query.tags) : \E j \in 1..Len(e.tags) :
                 includes(toLowerCase(e.tags[j]), toLowerCase(query.tags[i])))
    ELSE results

\* e.f?.toLowerCase().includes(q)
OptIncludes(text, q) == text # NoText /\ includes(toLowerCase(text), q)

filterByQuery(results, query) ==
    IF "query" \in DOMAIN query /\ query.query # <<>> /\ trim(query.query) # <<>>
    THEN LET q == toLowerCase(query.query)
         IN SelectSeq(results, LAMBDA e :
                \/ includes(toLowerCase(e.name), q)
                \/ OptIncludes(e.description, q)
                \/ \E j \in 1..Len(e.tags) : includes(toLowerCase(e.tags[j]), q)
                \/ OptIncludes(e.source, q))
    ELSE results

\* pagination without the end of the page
pageNoLimit(results, offset, limit) == slice(results, offset, Len(results))

page(results, offset, limit) == slice(results, offset, offset + limit)

\* the five filters of search, one after the other
matching(entities, query) ==
    filterByQuery(filterByTags(filterByOwner(filterByKind(
        filterByType(entities, query), query), query), query), query)

\* Indexer.search, after load
search(entities, query) ==
    LET results == SortByUpdatedAtDesc(matching(entities, query))
        offset == OrDefault(query, "offset", 0)
        limit == OrDefault(query, "limit", defaultLimit)
        total == Len(results)
    IN [entities |-> page(results, offset, limit), total |-> total,
        hasMore |-> offset + limit < total]

\* the summaries an index can hold
Entity(uri, type, owner, name, description, tags, source, kind, updatedAt) ==
    [uri |-> uri, type |-> type, owner |-> owner, name |-> name, description |-> description,
     tags |-> tags, source |-> source, kind |-> kind, indexedAt |-> 1, updatedAt |-> updatedAt]

IndexedEntities ==
    {Entity("u1", "service_config", "pkA", <<"A", "b">>, NoText, <<<<"a", "b">>>>, <<"x">>,
            "single_command", 1),
     Entity("u2", "service_config", "pkB", <<"b">>, <<"A">>, <<>>, <<"a", "b">>, "listener", 2),
     Entity("u3", "dataset", "pkA", <<"c">>, NoText, <<<<"B">>>>, NoText, Undefined, 2),
     Entity("u4", "dataset", "pkB", <<"a", " ">>, <<"b">>, <<>>, NoText, Undefined, 1),
     Entity("u5", "service_config", "pkA", <<"c">>, NoText, <<<<"c">>, <<"a", "B", "c">>>>,
            <<"A">>, "command_flow", 3)}

\* SearchQuery: every property is optional
Opt(f, values) == {<<>>} \cup {[x \in {f} |-> v] : v \in values}

FilterQueries ==
    {ty @@ ki @@ ow @@ tg @@ tx :
        ty \in Opt("type", {"", "service_config", "dataset"}),
        ki \in Opt("kind", {"single_command", "listener"}),
        ow \in Opt("owner", {"pkA"}),
        tg \in Opt("tags", {<<>>, <<<<"a", "b">>>>, <<<<"B">>>>, <<<<"b">>, <<"x">>>>}),
        tx \in Opt("query", {<<>>, <<" ">>, <<"a">>, <<"A", "b">>, <<"b">>, <<"a", " ">>})}

PageQueries ==
    {ty @@ of @@ li :
        ty \in Opt("type", {"service_config"}),
        of \in Opt("offset", -1..MaxEntities),
        li \in Opt("limit", -1..MaxEntities)}

\* BotConfigEditor: kind={searchType === "listener" ? "listener" : "command"}
dialogKind(searchType) == IF searchType = "listener" THEN "listener" ELSE "command"

\* useServiceConfigSearch(options): { ...options, type: "service_config" }
useServiceConfigSearch(options) ==
    [f \in DOMAIN options \cup {"type"} |-> IF f = "type" THEN "service_config" ELSE options[f]]

\* the query ServiceConfigSearch sends for the Discover tab
discoverQuery(kind, searchQuery) ==
    useServiceConfigSearch([query |-> searchQuery, kind |-> kind, limit |-> 20])

\* the filter by kind of the My Configs tab (filteredMyConfigs)
acceptsMine(kind, manifestKind) ==
    IF kind = "command" THEN manifestKind \in {"single_command", "command_flow"}
    ELSE manifestKind = kind

\* what the dialog asks the indexer as the user types, for either kind of service
DialogQueries ==
    {discoverQuery(dialogKind(searchType), text) :
        searchType \in {"command", "listener"}, text \in {<<>>, <<"a">>}}

Queries == FilterQueries \cup PageQueries \cup DialogQueries

\* index.json as earlier indexing left it
InitSearch ==
    /\ indexFile \in {IndexJson(SetToSeq(S), 1) :
                        S \in {T \in SUBSET IndexedEntities : Cardinality(T) <= MaxEntities}}
    /\ usersFile = Absent
    /\ istate = EmptyState
    /\ iout = None
    /\ clock = 1
    /\ hs = <<>>
    /\ sdkListFmt = "uri"
    /\ lastWrite = [k \in Kinds, i \in Ids |-> Null]
    /\ out = None
    /\ InitMutations
    /\ gitArg = <<>>
    /\ gitOut = None
    /\ LaterIdle

\* POST /api/indexer/search: Indexer.search(query)
Search(query) ==
    LET loaded == load(istate, usersFile, indexFile)
    IN /\ iout = None
       /\ istate' = loaded
       /\ iout' = [op |-> "search", query |-> query, result |-> search(loaded.entities, query)]
       /\ UNCHANGED <<usersFile, indexFile, clock, storageVars, mutVars, gitVars, laterVars>>

\* the route answers with the result
Respond ==
    /\ iout # None
    /\ iout' = None
    /\ UNCHANGED <<usersFile, indexFile, istate, clock, storageVars, mutVars, gitVars, laterVars>>

NextSearch ==
    \/ \E query \in Queries : Search(query)
    \/ Respond

-----------------------------------------------------------------------------
(* lib/service-loader: parseGitUrl. A URL string is the scheme, the host, and the *)
(* path with "/" as a token of its own.                                           *)

Hosts == {"github.com", "www.github.com", "GitHub.com", "gitlab.com", "www.gitlab.com",
          "raw.githubusercontent.com", "example.com"}

\* host names are compared in lower case
LowerHost(h) == IF h = "GitHub.com" THEN "github.com" ELSE h

\* new URL(s): Null where the constructor throws, else the parts parseGitUrl uses
URL(s) ==
    IF Len(s) >= 2 /\ s[1] = "https://" /\ s[2] \in Hosts
    THEN [hostname |-> LowerHost(s[2]), pathname |-> IF Len(s) = 2 THEN <<"/">> ELSE Drop(s, 2)]
    ELSE Null

\* pathname.split("/").filter(Boolean)
splitPath(pathname) == SelectSeq(pathname, LAMBDA t : t # "/")

\* join that keeps the first part only
joinFirstOnly(parts) == IF parts = <<>> THEN <<>> ELSE <<parts[1]>>

\* parts.join("/")
RECURSIVE join(_)
join(parts) ==
    IF Len(parts) <= 1 THEN parts ELSE <<parts[1], "/">> \o join(Tail(parts))

\* parts[i], 0-based: undefined past the end
At(parts, i) == IF i < Len(parts) THEN parts[i + 1] ELSE Undefined

parseGitUrl(gitUrl) ==
    LET url == URL(gitUrl)
    IN IF url = Null THEN Null
       ELSE LET hostname == LowerHost(url.hostname)
                pathParts == splitPath(url.pathname)
                n == Len(pathParts)
                owner == At(pathParts, 0)
                repo == At(pathParts, 1)
                Parsed(provider, path, branch) ==
                    [provider |-> provider, owner |-> owner, repo |-> repo,
                     path |-> path, branch |-> branch]
            IN IF n < 2 THEN Null
               ELSE IF hostname \in {"github.com", "www.github.com"}
               THEN IF n > 3 /\ At(pathParts, 2) \in {"tree", "blob"}
                    THEN Parsed("github", join(Drop(pathParts, 4)), At(pathParts, 3))
                    ELSE IF n > 2 THEN Parsed("github", join(Drop(pathParts, 2)), "main")
                    ELSE Parsed("github", <<>>, "main")
               ELSE IF hostname \in {"gitlab.com", "www.gitlab.com"}
               THEN IF n > 3 /\ At(pathParts, 2) = "-" /\ At(pathParts, 3) = "tree"
                    THEN Parsed("gitlab", join(Drop(pathParts, 5)), At(pathParts, 4))
                    ELSE IF n > 2 THEN Parsed("gitlab", join(Drop(pathParts, 2)), "main")
                    ELSE Parsed("gitlab", <<>>, "main")
               ELSE IF hostname = "raw.githubusercontent.com"
               THEN Parsed("github", join(Drop(pathParts, 3)), At(pathParts, 2))
               ELSE Parsed("unknown", <<>>, "main")

\* the strings handed to parseGitUrl: not URLs at all, or https URLs of a host with
\* up to 2 + MaxTail path segments, with or without a trailing slash
TailSegments == {"tree", "blob", "-", "B", "P"}
Tails == UNION {[1..n -> TailSegments] : n \in 1..MaxTail}
Paths == {<<>>, <<"o">>, <<"o", "r">>} \cup {<<"o", "r">> \o t : t \in Tails}

RECURSIVE PathString(_)
PathString(parts) == IF parts = <<>> THEN <<>> ELSE <<"/", parts[1]>> \o PathString(Tail(parts))

GitUrls ==
    {<<>>, <<"not-a-url">>, <<"https://">>, <<"github.com", "/", "o", "/", "r">>}
    \cup {<<"https://", h>> \o PathString(p) \o end :
            h \in Hosts, p \in Paths, end \in {<<>>, <<"/">>}}

InitGitUrl ==
    /\ gitArg \in GitUrls
    /\ gitOut = None
    /\ LaterIdle
    /\ hs = <<>>
    /\ sdkListFmt = "uri"
    /\ lastWrite = [k \in Kinds, i \in Ids |-> Null]
    /\ out = None
    /\ InitMutations
    /\ usersFile = Absent
    /\ indexFile = Absent
    /\ istate = EmptyState
    /\ iout = None
    /\ clock = 1

\* parseGitUrl(gitUrl)
ParseGitUrl ==
    /\ gitOut = None
    /\ gitOut' = [result |-> parseGitUrl(gitArg)]
    /\ UNCHANGED <<gitArg, storageVars, mutVars, indexerIdle, laterVars>>

NextGitUrl == ParseGitUrl

-----------------------------------------------------------------------------
(* api/services/load: parseManifestFromSource. A TypeScript source is a sequence  *)
(* of characters; a word (a keyword, an identifier, a number, the text inside a   *)
(* string) stands for its characters, which the scanners below treat alike, and   *)
(* the characters the scanners look at are tokens of their own:                   *)
(* { } [ ] : , ' " / * \ and the line feed.                                        *)

DQ == "\""
SQ == "'"
BS == "\\"
NL == "\n"
Quotes == {DQ, SQ}

\* A loop of the code is a step on the record of its variables, taken as often as
\* the text is long; a loop that has ended (done) stays as it is.

\* removeComments, the inner while loop over a quoted string (lines 140-145)
rcStringStep(code, st, quote) ==
    IF st.i <= Len(code) /\ code[st.i] # quote
    THEN IF code[st.i] = BS /\ st.i + 1 <= Len(code)
         THEN [i |-> st.i + 2, result |-> st.result \o <<code[st.i], code[st.i + 1]>>]
         ELSE [i |-> st.i + 1, result |-> Append(st.result, code[st.i])]
    ELSE st
RECURSIVE rcStringSteps(_, _, _, _)
rcStringSteps(code, st, quote, n) ==
    IF n = 0 THEN st
    ELSE IF n = 1 THEN rcStringStep(code, st, quote)
    ELSE LET mid == rcStringSteps(code, st, quote, n \div 2)
         IN IF mid.i > Len(code) THEN mid ELSE rcStringSteps(code, mid, quote, n - n \div 2)

\* removeComments, a quoted string from its opening quote at i: the loop, then the
\* closing quote
rcString(code, i) ==
    LET st == rcStringSteps(code, [i |-> i + 1, result |-> <<code[i]>>], code[i], Len(code))
    IN IF st.i <= Len(code) THEN [i |-> st.i + 1, result |-> Append(st.result, code[st.i])]
       ELSE st

\* removeComments, a block comment from i on (lines 150-154): the index after it
rcBlock(code, i) ==
    LET stop == {j \in (i + 2)..(Len(code) + 2) :
                    ~(j + 1 <= Len(code) /\ ~(code[j] = "*" /\ code[j + 1] = "/"))}
    IN (CHOOSE j \in stop : \A k \in stop : j <= k) + 2

\* removeComments, a line comment from i on (line 158): the index of the line feed
rcLine(code, i) ==
    LET stop == {j \in i..(Len(code) + 1) : ~(j <= Len(code) /\ code[j] # NL)}
    IN CHOOSE j \in stop : \A k \in stop : j <= k

\* removeComments, one turn of the outer while loop
rcStep(code, st) ==
    IF st.i > Len(code) THEN st
    ELSE IF code[st.i] \in Quotes
         THEN LET r == rcString(code, st.i)
              IN [i |-> r.i, result |-> st.result \o r.result]
    ELSE IF code[st.i] = "/" /\ st.i + 1 <= Len(code) /\ code[st.i + 1] = "*"
         THEN [i |-> rcBlock(code, st.i), result |-> st.result]
    ELSE IF code[st.i] = "/" /\ st.i + 1 <= Len(code) /\ code[st.i + 1] = "/"
         THEN [i |-> rcLine(code, st.i), result |-> st.result]
    ELSE [i |-> st.i + 1, result |-> Append(st.result, code[st.i])]
RECURSIVE rcSteps(_, _, _)
rcSteps(code, st, n) ==
    IF n = 0 THEN st
    ELSE IF n = 1 THEN rcStep(code, st)
    ELSE LET mid == rcSteps(code, st, n \div 2)
         IN IF mid.i > Len(code) THEN mid ELSE rcSteps(code, mid, n - n \div 2)

removeComments(code) == rcSteps(code, [i |-> 1, result |-> <<>>], Len(code)).result

\* the brace counting loop of parseManifestFromSource (lines 198-232), one turn
countBracesStep(source, st) ==
    IF st.done \/ st.i > Len(source) THEN st
    ELSE LET char == source[st.i]
             next == [st EXCEPT !.i = st.i + 1]
         IN IF st.escaped THEN [next EXCEPT !.escaped = FALSE]
            ELSE IF char = BS THEN [next EXCEPT !.escaped = TRUE]
            ELSE IF char \in Quotes /\ ~st.inString
                 THEN [next EXCEPT !.inString = TRUE, !.stringChar = char]
            ELSE IF st.inString /\ char = st.stringChar THEN [next EXCEPT !.inString = FALSE]
            ELSE IF st.inString THEN next
            ELSE LET count == st.braceCount + (IF char = "{" THEN 1 ELSE 0)
                                            - (IF char = "}" THEN 1 ELSE 0)
                 IN IF count = 0 THEN [st EXCEPT !.braceCount = 0, !.endIndex = st.i, !.done = TRUE]
                    ELSE [next EXCEPT !.braceCount = count]
RECURSIVE countBracesSteps(_, _, _)
countBracesSteps(source, st, n) ==
    IF n = 0 THEN st
    ELSE IF n = 1 THEN countBracesStep(source, st)
    ELSE LET mid == countBracesSteps(source, st, n \div 2)
         IN IF mid.done THEN mid ELSE countBracesSteps(source, mid, n - n \div 2)

\* the index of the brace that closes the one at startIndex, as the loop finds it;
\* startIndex when the count never comes back to 0
matchingBrace(source, startIndex) ==
    countBracesSteps(source,
        [i |-> startIndex, braceCount |-> 0, inString |-> FALSE, stringChar |-> "",
         escaped |-> FALSE, endIndex |-> startIndex, done |-> FALSE],
        Len(source)).endIndex

\* The regular expressions of parseManifestFromSource, on the characters of the
\* model: white space is " " and the line feed

Ws == {" ", NL}
RECURSIVE skipWs(_, _)
skipWs(s, i) == IF i <= Len(s) /\ s[i] \in Ws THEN skipWs(s, i + 1) ELSE i

\* \w+(?:_SCHEMA|_SCHEMAS)
SchemaNames == {"A_SCHEMA", "B_SCHEMA", "X_CONFIG_SCHEMA", "X_DATASET_SCHEMAS"}
\* [A-Z_]+ : the names of the string constants, and of the schema constants
UpperNames == {"SERVICE_ID", "SERVICE_KIND", "COMMAND"} \cup SchemaNames

\* ["']([^"']+)["'] at j: the index of the closing quote, 0 when it does not match
LitEnd(s, j) ==
    IF j <= Len(s) /\ s[j] \in Quotes /\ \E k \in (j + 2)..Len(s) : s[k] \in Quotes
    THEN LET k == CHOOSE k \in (j + 1)..Len(s) :
                      s[k] \in Quotes /\ \A n \in (j + 1)..(k - 1) : s[n] \notin Quotes
         IN IF k >= j + 2 THEN k ELSE 0
    ELSE 0
LitText(s, j) == SubSeq(s, j + 1, LitEnd(s, j) - 1)

\* the least element of a set of positions, 0 when there is none
First(P) == IF P = {} THEN 0 ELSE CHOOSE i \in P : \A j \in P : i <= j

\* key:\s* followed by a string literal: where the value starts, for the leftmost match
KeyLit(s, key) ==
    First({skipWs(s, i + 2) : i \in {i \in 1..(Len(s) - 1) :
              s[i] = key /\ s[i + 1] = ":" /\ LitEnd(s, skipWs(s, i + 2)) # 0}})

\* key:\s* followed by a string literal or by a name in capitals
KeyLitOrName(s, key) ==
    First({skipWs(s, i + 2) : i \in {i \in 1..(Len(s) - 1) :
              /\ s[i] = key /\ s[i + 1] = ":"
              /\ LET j == skipWs(s, i + 2)
                 IN LitEnd(s, j) # 0 \/ (j <= Len(s) /\ s[j] \in UpperNames)}})

\* export const (\w+)\s*=\s*["']([^"']+)["'] : the string constants, name -> text
constantsOf(source) ==
    LET at == {i \in 1..(Len(source) - 2) :
                  /\ source[i] = "export const" /\ source[i + 2] = "="
                  /\ LitEnd(source, skipWs(source, i + 3)) # 0}
        names == {source[i + 1] : i \in at}
    IN [n \in names |->
          LET last == CHOOSE i \in at : source[i + 1] = n /\ \A j \in at : source[j + 1] = n => j <= i
          IN LitText(source, skipWs(source, last + 3))]

\* constants[name]
Lookup(constants, name) == IF name \in DOMAIN constants THEN constants[name] ELSE NoText

\* export const NAME_SCHEMA[: JSONSchema] = { at i: the index of the opening brace, or 0
schemaStart(source, i) ==
    IF i + 3 <= Len(source) /\ source[i] = "export const" /\ source[i + 1] \in SchemaNames
    THEN IF source[i + 2] = "=" /\ source[i + 3] = "{" THEN i + 3
         ELSE IF /\ i + 5 <= Len(source) /\ source[i + 2] = ":"
                 /\ source[i + 3] \in {"JSONSchema", "DatasetSchemas"}
                 /\ source[i + 4] = "=" /\ source[i + 5] = "{" THEN i + 5
         ELSE 0
    ELSE 0

\* schemaStrings[name] = str, keeping the place of a name that is there already
putSchema(strings, name, str) ==
    IF \E n \in 1..Len(strings) : strings[n].name = name
    THEN [n \in 1..Len(strings) |->
            IF strings[n].name = name THEN [name |-> name, str |-> str] ELSE strings[n]]
    ELSE Append(strings, [name |-> name, str |-> str])

\* the while loop over schemaStartRegex.exec (lines 187-237): schemaStrings as the
\* sequence of its entries, in the order of Object.keys; i is lastIndex
RECURSIVE schemaStringsFrom(_, _, _)
schemaStringsFrom(source, i, strings) ==
    LET at == First({j \in i..Len(source) : schemaStart(source, j) # 0})
    IN IF at = 0 THEN strings
       ELSE LET startIndex == schemaStart(source, at)
                endIndex == matchingBrace(source, startIndex)
            IN schemaStringsFrom(source, startIndex + 1,
                   IF endIndex > startIndex
                   THEN putSchema(strings, source[at + 1], SubSeq(source, startIndex, endIndex))
                   ELSE strings)

schemaStringsOf(source) == schemaStringsFrom(source, 1, <<>>)

\* cleanedStr.replace(refRegex, `$1"__REF:${refName}"$2`) with the regular expression
\* ([:,\[]\s*)refName(\s*[,}\]]) and the flag g: matches are taken from left to
\* right and do not overlap, the closing delimiter of one is not the opening
\* delimiter of the next. One step: a match at i, or one character copied.
refMatch(s, i, refName) ==
    LET j == skipWs(s, i + 1)
        k == skipWs(s, j + 1)
    IN IF /\ s[i] \in {":", ",", "["}
          /\ j <= Len(s) /\ s[j] = refName
          /\ k <= Len(s) /\ s[k] \in {",", "}", "]"}
       THEN [found |-> TRUE, j |-> j, k |-> k]
       ELSE [found |-> FALSE, j |-> 0, k |-> 0]

replaceRefStep(s, st, refName) ==
    IF st.i > Len(s) THEN st
    ELSE LET m == refMatch(s, st.i, refName)
         IN IF m.found
            THEN [i |-> m.k + 1,
                  result |-> st.result \o SubSeq(s, st.i, m.j - 1) \o <<DQ, "__REF:", refName, DQ>>
                                 \o SubSeq(s, m.j + 1, m.k)]
            ELSE [i |-> st.i + 1, result |-> Append(st.result, s[st.i])]
RECURSIVE replaceRefSteps(_, _, _, _)
replaceRefSteps(s, st, refName, n) ==
    IF n = 0 THEN st
    ELSE IF n = 1 THEN replaceRefStep(s, st, refName)
    ELSE LET mid == replaceRefSteps(s, st, refName, n \div 2)
         IN IF mid.i > Len(s) THEN mid ELSE replaceRefSteps(s, mid, refName, n - n \div 2)

replaceRef(s, refName) == replaceRefSteps(s, [i |-> 1, result |-> <<>>], refName, Len(s)).result

\* the for loop over Object.keys(schemaStrings) of parseSchema (lines 250-255)
RECURSIVE replaceRefs(_, _, _, _)
replaceRefs(cleanedStr, strings, n, name) ==
    IF n > Len(strings) THEN cleanedStr
    ELSE replaceRefs(IF strings[n].name # name
                     THEN replaceRef(cleanedStr, strings[n].name)
                     ELSE cleanedStr,
                     strings, n + 1, name)

\* new Function(`"use strict"; return (${cleanedStr});`)(): the value is written as
\* the characters of the literal without the white space outside its strings;
\* [ok, value, open], ok FALSE where the call throws: a bracket closed that is not
\* open or left open, a string left open, or a name that is neither a property key
\* nor a literal (a ReferenceError)
Literals == {"1", "2", "true"}
\* the quote that closes the string opened at i, 0 when there is none
ClosingQuote(s, i) == First({k \in (i + 1)..Len(s) : s[k] = s[i] /\ s[k - 1] # BS})

evalStep(s, st) ==
    IF ~st.ok \/ st.i > Len(s) THEN st
    ELSE LET c == s[st.i]
             failed == [st EXCEPT !.ok = FALSE]
             copied == [st EXCEPT !.i = st.i + 1, !.value = Append(st.value, c)]
         IN IF c \in Quotes
            THEN IF ClosingQuote(s, st.i) = 0 THEN failed
                 ELSE [st EXCEPT !.i = ClosingQuote(s, st.i) + 1,
                                 !.value = st.value \o SubSeq(s, st.i, ClosingQuote(s, st.i))]
            ELSE IF c \in Ws THEN [st EXCEPT !.i = st.i + 1]
            ELSE IF c \in {"{", "["} THEN [copied EXCEPT !.open = <<c>> \o st.open]
            ELSE IF c \in {"}", "]"}
                 THEN IF /\ st.open # <<>>
                         /\ st.open[1] = (IF c = "}" THEN "{" ELSE "[")
                         /\ (Len(st.open) > 1 \/ st.i = Len(s))
                      THEN [copied EXCEPT !.open = Tail(st.open)]
                      ELSE failed
            ELSE IF c \in {":", ","} THEN copied
            ELSE IF /\ st.open # <<>>
                    /\ \/ c \in Literals
                       \/ (skipWs(s, st.i + 1) <= Len(s) /\ s[skipWs(s, st.i + 1)] = ":")
                 THEN copied
            ELSE failed
RECURSIVE evalSteps(_, _, _)
evalSteps(s, st, n) ==
    IF n = 0 THEN st
    ELSE IF n = 1 THEN evalStep(s, st)
    ELSE LET mid == evalSteps(s, st, n \div 2)
         IN IF ~mid.ok THEN mid ELSE evalSteps(s, mid, n - n \div 2)

evaluate(cleanedStr) ==
    LET st == evalSteps(cleanedStr, [i |-> 1, open |-> <<>>, value |-> <<>>, ok |-> TRUE],
                        Len(cleanedStr))
    IN [ok |-> st.ok /\ st.open = <<>> /\ st.value # <<>>, value |-> st.value]

HasSchemaString(strings, name) == \E n \in 1..Len(strings) : strings[n].name = name
SchemaString(strings, name) == strings[CHOOSE n \in 1..Len(strings) : strings[n].name = name].str

\* parseSchema and resolveRefs (lines 241-292). ctx is what they share: schemas as
\* [names, order, value] (order as Object.keys(schemas) gives it) and, for each
\* call of new Function, the text that was handed to it. A value is walked from
\* left to right, which is the order resolveRefs visits it in.
RECURSIVE parseSchema(_, _, _)
resolveRefsStep(obj, st, strings) ==
    IF st.i > Len(obj) THEN st
    ELSE IF obj[st.i] \in Quotes
         THEN LET i == st.i
                  close == ClosingQuote(obj, i)
                  isValue == ~(close + 1 <= Len(obj) /\ obj[close + 1] = ":")
              IN IF isValue /\ close >= i + 2 /\ obj[i + 1] = "__REF:"
                 THEN LET refName == IF close = i + 3 THEN obj[i + 2] ELSE ""
                          after == IF HasSchemaString(strings, refName) /\ refName \notin st.ctx.names
                                   THEN parseSchema(refName, st.ctx, strings) ELSE st.ctx
                      IN [i |-> close + 1,
                          result |-> st.result \o (IF refName \in after.names
                                                   THEN after.value[refName] ELSE NoText),
                          ctx |-> after]
                 ELSE [st EXCEPT !.i = close + 1, !.result = st.result \o SubSeq(obj, i, close)]
    ELSE [st EXCEPT !.i = st.i + 1, !.result = Append(st.result, obj[st.i])]
RECURSIVE resolveRefsSteps(_, _, _, _)
resolveRefsSteps(obj, st, strings, n) ==
    IF n = 0 THEN st
    ELSE IF n = 1 THEN resolveRefsStep(obj, st, strings)
    ELSE LET mid == resolveRefsSteps(obj, st, strings, n \div 2)
         IN IF mid.i > Len(obj) THEN mid ELSE resolveRefsSteps(obj, mid, strings, n - n \div 2)

resolveRefs(obj, ctx, strings) ==
    LET st == resolveRefsSteps(obj, [i |-> 1, result |-> <<>>, ctx |-> ctx], strings, Len(obj))
    IN [value |-> st.result, ctx |-> st.ctx]

parseSchema(name, ctx, strings) ==
    IF name \in ctx.names THEN ctx
    ELSE LET cleanedStr == replaceRefs(removeComments(SchemaString(strings, name)), strings, 1, name)
             logged == [ctx EXCEPT !.evaluated = Append(@, [name |-> name, str |-> cleanedStr])]
             parsed == evaluate(cleanedStr)
         IN IF ~parsed.ok THEN logged
            ELSE LET r == resolveRefs(parsed.value, logged, strings)
                 IN [names |-> r.ctx.names \cup {name},
                     order |-> Append(r.ctx.order, name),
                     value |-> [n \in r.ctx.names \cup {name} |->
                                  IF n = name THEN r.value ELSE r.ctx.value[n]],
                     evaluated |-> r.ctx.evaluated]

\* the for loop over Object.entries(schemaStrings) (lines 294-296)
RECURSIVE parseSchemas(_, _, _)
parseSchemas(strings, n, ctx) ==
    IF n > Len(strings) THEN ctx
    ELSE parseSchemas(strings, n + 1, parseSchema(strings[n].name, ctx, strings))

\* the service fields (lines 300-348); a text that is undefined is NoText
ServiceKinds == {"single_command", "command_flow", "listener"}
IsKindText(text) == Len(text) = 1 /\ text[1] \in ServiceKinds

\* the value at j, a string literal or the name of a string constant
LitOrConstant(s, j, constants) ==
    IF j = 0 THEN NoText
    ELSE IF LitEnd(s, j) # 0 THEN LitText(s, j) ELSE Lookup(constants, s[j])
LitOrUndefined(s, j) == IF j = 0 THEN NoText ELSE LitText(s, j)

\* kind:\s*(?:["'](single_command|command_flow|listener)["']|([A-Z_]+)), or with
\* the literal only
KindAt(s, namesToo) ==
    First({skipWs(s, i + 2) : i \in {i \in 1..(Len(s) - 1) :
              /\ s[i] = "kind" /\ s[i + 1] = ":"
              /\ LET j == skipWs(s, i + 2)
                 IN \/ (LitEnd(s, j) # 0 /\ IsKindText(LitText(s, j)))
                    \/ (namesToo /\ j <= Len(s) /\ s[j] \in UpperNames)}})

\* defineService\s*\(\s*{([^}]+)} : the block between the braces, <<>> without a match
defineServiceBlock(source) ==
    LET opens == {i \in 1..Len(source) :
                    /\ source[i] = "defineService"
                    /\ LET j == skipWs(source, i + 1)
                           k == skipWs(source, j + 1)
                       IN /\ k + 1 <= Len(source) /\ source[j] = "(" /\ source[k] = "{"
                          /\ source[k + 1] # "}"
                          /\ \E e \in (k + 2)..Len(source) : source[e] = "}"}
        i == First(opens)
    IN IF i = 0 THEN <<>>
       ELSE LET k == skipWs(source, skipWs(source, i + 1) + 1)
                e == First({e \in (k + 2)..Len(source) : source[e] = "}"})
            IN SubSeq(source, k + 1, e - 1)

\* what is read from defineService({...}), or from the legacy format
fieldsFrom(source, constants, block) ==
    LET KindOf(text) == IF IsKindText(text) THEN text[1] ELSE Undefined
    IN IF block # <<>>
       THEN [serviceId |-> LitOrConstant(block, KeyLitOrName(block, "id"), constants),
             kind |-> KindOf(LitOrConstant(block, KindAt(block, TRUE), constants)),
             command |-> LitOrConstant(block, KeyLitOrName(block, "command"), constants),
             description |-> LitOrUndefined(block, KeyLit(block, "description"))]
       ELSE [serviceId |-> LitOrUndefined(source, KeyLit(source, "serviceId")),
             kind |-> KindOf(LitOrUndefined(source, KindAt(source, FALSE))),
             command |-> LitOrUndefined(source, KeyLit(source, "command")),
             description |-> LitOrUndefined(source, KeyLit(source, "description"))]
serviceFields(source) == fieldsFrom(source, constantsOf(source), defineServiceBlock(source))

\* Object.keys(schemas).find(...): k.endsWith("CONFIG_SCHEMA") && !k.includes("DATASET"),
\* k.endsWith("DATASET_SCHEMAS")
IsConfigSchemaKey(k) == k = "X_CONFIG_SCHEMA"
IsDatasetSchemasKey(k) == k = "X_DATASET_SCHEMAS"
schemaFor(ctx, IsKey(_)) ==
    LET n == First({n \in 1..Len(ctx.order) : IsKey(ctx.order[n])})
    IN IF n = 0 THEN NoText ELSE ctx.value[ctx.order[n]]

NoSchemas == [names |-> {}, order |-> <<>>, value |-> <<>>, evaluated |-> <<>>]

\* parseManifestFromSource: [manifest, evaluated], manifest Null where it returns null
manifestFrom(f, ctx) ==
    [manifest |->
        IF f.serviceId = NoText THEN Null
        ELSE [serviceId |-> f.serviceId,
              kind |-> IF f.kind = Undefined THEN "single_command" ELSE f.kind,
              command |-> f.command, description |-> f.description,
              configSchema |-> schemaFor(ctx, IsConfigSchemaKey),
              datasetSchemas |-> schemaFor(ctx, IsDatasetSchemasKey)],
     evaluated |-> ctx.evaluated]
parseManifestFromSource(source) ==
    manifestFrom(serviceFields(source), parseSchemas(schemaStringsOf(source), 1, NoSchemas))

\* The sources handed to parseManifestFromSource

\* flatten a sequence of character sequences
RECURSIVE Concat(_)
Concat(ss) == IF ss = <<>> THEN <<>> ELSE ss[1] \o Concat(Tail(ss))

SeqsUpTo(S, n) == UNION {[1..k -> S] : k \in 0..n}

ConstStmt(name, text) == <<"export const", name, "=", SQ, text, SQ, ";", NL>>
SchemaStmt(name, literal) == <<"export const", name, "=">> \o literal \o <<";", NL>>
TypedSchemaStmt(name, literal) ==
    <<"export const", name, ":", "JSONSchema", "=">> \o literal \o <<";", NL>>
LegacyStmt == <<"serviceId", ":", SQ, "svc", SQ, ",", NL>>
DefineStmt(id, kind) ==
    <<"defineService", "(", "{", NL, "id", ":", " ">> \o id \o <<",", " ", "kind", ":">>
        \o kind \o <<",", "command", ":", "COMMAND", ",", "description", ":", DQ, "text", DQ, "}", ")">>

\* the pieces of a schema literal: properties, with comments between them
Properties ==
    {<<"a", ":", "1", ",">>, <<"c", ":", "{", "}", ",">>,
     <<"u", ":", DQ, "pubky:", "/", "/", "x", DQ, ",">>,
     <<"v", ":", SQ, "/", "*", "}", SQ, ",">>}
Comments ==
    {<<"/", "/", "x", NL>>, <<"/", "/", "}", NL>>, <<"/", "/", "it", SQ, "s", NL>>,
     <<"/", "*", "{", "*", "/">>, <<"/", "*", DQ, "*", "/">>}
CommentedSources ==
    {LegacyStmt \o SchemaStmt("X_CONFIG_SCHEMA", <<"{">> \o Concat(ps) \o <<"}">>)
         \o ConstStmt("SERVICE_KIND", "listener") :
       ps \in SeqsUpTo(Properties \cup Comments, MaxPieces)}

\* schema literals that use other schema constants, declared in any order
RefArrays == {<<"l", ":", "[">> \o Concat([i \in 1..Len(es) |->
                     IF i = 1 THEN <<es[i]>> ELSE <<",", " ", es[i]>>]) \o <<"]", ",">> :
                es \in SeqsUpTo({"A_SCHEMA", "B_SCHEMA"}, MaxElems) \ {<<>>}}
RefProperties == {<<"p", ":", " ", "A_SCHEMA", ",">>, <<"q", ":", "B_SCHEMA", NL, ",">>}
Orders(S) == {o \in [1..Cardinality(S) -> S] : \A i, j \in 1..Cardinality(S) : o[i] = o[j] => i = j}
ReferringSources ==
    {LegacyStmt \o Concat(o) :
       o \in UNION {Orders({SchemaStmt("X_CONFIG_SCHEMA", <<"{">> \o x \o <<"e", ":", "1", "}">>),
                            SchemaStmt("X_DATASET_SCHEMAS", <<"{", "d", ":", "A_SCHEMA", "}">>),
                            TypedSchemaStmt("A_SCHEMA", a),
                            SchemaStmt("B_SCHEMA", <<"{", "b", ":", "2", "}">>)}) :
                      x \in {Concat(ps) : ps \in SeqsUpTo(RefArrays \cup RefProperties, 1)},
                      a \in {<<"{", "a", ":", "1", "}">>, <<"{", "n", ":", "B_SCHEMA", "}">>}}}

\* sources with a defineService call, with and without the constants it names
DefiningSources ==
    {c \o DefineStmt(id, kind) :
       c \in {<<>>, ConstStmt("SERVICE_ID", "svc") \o ConstStmt("COMMAND", "go"),
              ConstStmt("SERVICE_KIND", "listener")},
       id \in {<<SQ, "svc", SQ>>, <<"SERVICE_ID">>, <<"id">>},
       kind \in {<<DQ, "command_flow", DQ>>, <<"SERVICE_KIND">>, <<DQ, "other", DQ>>}}

Sources ==
    CommentedSources \cup ReferringSources \cup DefiningSources
        \cup {<<>>, ConstStmt("SERVICE_ID", "svc"), <<"defineService", "(", "{", "}", ")">> \o LegacyStmt}

\* everything that comes before the parser, before any call to it
EarlierIdle ==
    /\ hs = <<>>
    /\ sdkListFmt = "uri"
    /\ lastWrite = [k \in Kinds, i \in Ids |-> Null]
    /\ out = None
    /\ InitMutations
    /\ usersFile = Absent
    /\ indexFile = Absent
    /\ istate = EmptyState
    /\ iout = None
    /\ clock = 1
    /\ gitArg = <<>>
    /\ gitOut = None
earlierVars == <<storageVars, mutVars, indexerIdle, gitVars>>

InitParser ==
    /\ tsSource \in Sources
    /\ parseOut = None
    /\ EarlierIdle
    /\ AfterParserIdle

\* parseManifestFromSource(source)
ParseManifestFromSource ==
    /\ parseOut = None
    /\ parseOut' = parseManifestFromSource(tsSource)
    /\ UNCHANGED <<tsSource, earlierVars, afterParserVars>>

NextParser == ParseManifestFromSource

-----------------------------------------------------------------------------
(* POST /api/services/load (app/api/services/load/route.ts)                  *)

\* the files of a service and what a fetch of each answers
ServiceFiles == {"constants.ts", "service.ts", "mod.ts"}
FileTexts ==
    {<<>>,
     ConstStmt("SERVICE_ID", "svc") \o ConstStmt("COMMAND", "go"),
     DefineStmt(<<"SERVICE_ID">>, <<DQ, "command_flow", DQ>>),
     LegacyStmt}
FetchOutcomes ==
    {[kind |-> "ok", text |-> t] : t \in FileTexts}
        \cup {[kind |-> "http", text |-> <<"HTTP 404">>], [kind |-> "throws", text |-> <<"fetch failed">>]}

\* the request bodies: not JSON, the JSON null, or an object whose gitUrl is
\* absent, a number or a string
LoadUrls ==
    {<<>>, <<"not-a-url">>,
     <<"https://", "github.com", "/", "o">>,
     <<"https://", "github.com", "/", "o", "/", "r">>,
     <<"https://", "gitlab.com", "/", "o", "/", "r", "/", "-", "/", "tree", "/", "B", "/", "P">>,
     <<"https://", "example.com", "/", "o", "/", "r">>}
LoadRequests ==
    {[json |-> "invalid"], [json |-> "null"],
     [json |-> "object", type |-> "undefined"],
     [json |-> "object", type |-> "number", number |-> 0],
     [json |-> "object", type |-> "number", number |-> 5]}
        \cup {[json |-> "object", type |-> "string", string |-> u] : u \in LoadUrls}

\* !gitUrl || typeof gitUrl !== "string" (line 10)
gitUrlRequired(body) == body.type # "string" \/ body.string = <<>>

\* getRawUrl(gitUrl, file)
rawUrlOf(parsed, file) ==
       IF parsed = Null THEN Null
       ELSE LET fullPath == IF parsed.path # <<>> THEN parsed.path \o <<"/", file>> ELSE <<file>>
            IN IF parsed.provider = "github"
               THEN <<"https://", "raw.githubusercontent.com", "/", parsed.owner, "/", parsed.repo,
                      "/", parsed.branch, "/">> \o fullPath
               ELSE IF parsed.provider = "gitlab"
               THEN <<"https://", "gitlab.com", "/", parsed.owner, "/", parsed.repo,
                      "/", "-", "/", "raw", "/", parsed.branch, "/">> \o fullPath
               ELSE Null
getRawUrl(gitUrl, file) == rawUrlOf(parseGitUrl(gitUrl), file)

\* await fetch(url), await response.text(): what the web answers for the file of the URL
fetch(url) == web[url[Len(url)]]

\* the route before the request
RouteStart ==
    [pc |-> "start", gitUrl |-> <<>>, constantsUrl |-> Null, serviceUrl |-> Null, modUrl |-> Null,
     constantsContent |-> <<>>, serviceContent |-> <<>>,
     manifest |-> Null, errors |-> <<>>, fetched |-> <<>>, parses |-> <<>>, response |-> None]

Respond400(message) == [status |-> 400, message |-> message]

\* lines 8-28: the body, gitUrl, parseGitUrl; a body that is not JSON, or null,
\* throws and is answered by the outer catch
Receive ==
    /\ rt.pc = "start"
    /\ rt' = IF req.json # "object"
             THEN [rt EXCEPT !.pc = "done", !.response = [status |-> 500, message |-> "Failed to load service"]]
             ELSE IF gitUrlRequired(req)
             THEN [rt EXCEPT !.pc = "done", !.response = Respond400("gitUrl is required")]
             ELSE IF parseGitUrl(req.string) = Null
             THEN [rt EXCEPT !.pc = "done", !.response = Respond400("Invalid git URL format")]
             ELSE [rt EXCEPT !.pc = "constants", !.gitUrl = req.string,
                             !.constantsUrl = getRawUrl(req.string, "constants.ts"),
                             !.serviceUrl = getRawUrl(req.string, "service.ts"),
                             !.modUrl = getRawUrl(req.string, "mod.ts")]
    /\ UNCHANGED <<req, web, beforeLoadVars, afterLoadVars>>

\* one of the three fetches: the file asked for is logged, and what is not a
\* response with ok is pushed to errors
fetchedInto(r, file, response) ==
    IF response.kind = "ok" THEN [r EXCEPT !.fetched = Append(@, file)]
    ELSE [r EXCEPT !.fetched = Append(@, file), !.errors = Append(@, <<file>> \o response.text)]
contentOf(response) == IF response.kind = "ok" THEN response.text ELSE <<>>

\* lines 36-51
FetchConstants ==
    /\ rt.pc = "constants"
    /\ rt' = IF rt.constantsUrl = Null THEN [rt EXCEPT !.pc = "service"]
             ELSE [fetchedInto(rt, "constants.ts", fetch(rt.constantsUrl))
                      EXCEPT !.pc = "service", !.constantsContent = contentOf(fetch(rt.constantsUrl))]
    /\ UNCHANGED <<req, web, beforeLoadVars, afterLoadVars>>

\* lines 53-68
FetchService ==
    /\ rt.pc = "service"
    /\ rt' = IF rt.serviceUrl = Null THEN [rt EXCEPT !.pc = "combined"]
             ELSE [fetchedInto(rt, "service.ts", fetch(rt.serviceUrl))
                      EXCEPT !.pc = "combined", !.serviceContent = contentOf(fetch(rt.serviceUrl))]
    /\ UNCHANGED <<req, web, beforeLoadVars, afterLoadVars>>

\* manifest = parseManifestFromSource(...) in the route: the manifest, and the call logged
parsedInto(r, what, source, manifest) ==
    [r EXCEPT !.manifest = manifest,
              !.parses = Append(@, [what |-> what, source |-> source,
                                    after |-> r.fetched, manifest |-> manifest])]
parsedBy(r, what, source) == parsedInto(r, what, source, parseManifestFromSource(source).manifest)

\* lines 70-77
ParseCombined ==
    /\ rt.pc = "combined"
    /\ rt' = IF rt.constantsContent # <<>> \/ rt.serviceContent # <<>>
             THEN [parsedBy(rt, "combined", rt.constantsContent \o <<NL>> \o rt.serviceContent)
                      EXCEPT !.pc = "mod"]
             ELSE [rt EXCEPT !.pc = "mod"]
    /\ UNCHANGED <<req, web, beforeLoadVars, afterLoadVars>>

\* if (!manifest && modUrl), and the test that leaves the manifest out
tryModAlways(manifest, modUrl) == modUrl # Null
tryMod(manifest, modUrl) == manifest = Null /\ modUrl # Null

\* lines 79-98
FetchMod ==
    /\ rt.pc = "mod"
    /\ rt' = IF ~tryMod(rt.manifest, rt.modUrl) THEN [rt EXCEPT !.pc = "answer"]
             ELSE IF fetch(rt.modUrl).kind = "ok"
             THEN [parsedBy(fetchedInto(rt, "mod.ts", fetch(rt.modUrl)), "mod", fetch(rt.modUrl).text)
                      EXCEPT !.pc = "answer"]
             ELSE [fetchedInto(rt, "mod.ts", fetch(rt.modUrl)) EXCEPT !.pc = "answer"]
    /\ UNCHANGED <<req, web, beforeLoadVars, afterLoadVars>>

\* lines 100-114
Answer ==
    /\ rt.pc = "answer"
    /\ rt' = [rt EXCEPT !.pc = "done",
                        !.response = IF rt.manifest = Null
                                     THEN Respond400("Could not parse service manifest")
                                     ELSE [status |-> 200, source |-> rt.gitUrl,
                                           manifest |-> rt.manifest]]
    /\ UNCHANGED <<req, web, beforeLoadVars, afterLoadVars>>

InitLoad ==
    /\ req \in LoadRequests
    /\ web \in [ServiceFiles -> FetchOutcomes]
    /\ rt = RouteStart
    /\ EarlierIdle
    /\ ParserIdle
    /\ AfterLoadIdle

NextLoad == Receive \/ FetchConstants \/ FetchService \/ ParseCombined \/ FetchMod \/ Answer

-----------------------------------------------------------------------------
(* The auth store (stores/auth-store.ts) and the AuthProvider effect          *)

\* a Session: one whose export() gives a string, one whose export() throws or is missing
Sessions == {[id |-> "s1", exportable |-> TRUE], [id |-> "s2", exportable |-> FALSE]}
RestoredSessions == {[id |-> "restored", exportable |-> TRUE], [id |-> "restored", exportable |-> FALSE]}
Keypairs == {[secret |-> "kp"]}
\* the public keys a user signs in with (z-base-32 strings)
SigninKeys == {[z32 |-> k] : k \in PublicKeys}

\* the timer of restoreSessionFromExport, in seconds
restoreTimeout == 8

safeSessionExport(session) ==
    IF session = Null THEN Null
    ELSE IF session.exportable THEN [exportOf |-> session.id] ELSE Null

defaultAuthData ==
    [isAuthenticated |-> FALSE, publicKey |-> Null, keypair |-> Null, session |-> Null,
     sessionExport |-> Null, isHydrated |-> FALSE, isRestoringSession |-> FALSE]

\* persist: partialize(state), written to localStorage by every set
partialize(state) == [publicKey |-> state.publicKey, sessionExport |-> state.sessionExport]

\* what localStorage can hold when the page loads: nothing, or what a set has written
PersistedStates ==
    {Null, [publicKey |-> Null, sessionExport |-> Null]}
        \cup {[publicKey |-> k, sessionExport |-> safeSessionExport(s)] : k \in SigninKeys, s \in Sessions}

\* loggedOut is history: logout() has run since the call began
NoCall ==
    [pc |-> "idle", publicKey |-> Null, sessionExport |-> Null, elapsed |-> 0, ended |-> "no",
     loggedOut |-> FALSE]
Calls == {1, 2}

\* set(partial): the store and localStorage after it
Set(state) == auth' = state /\ persisted' = partialize(state)

\* the persist middleware at creation: the stored part merged into the state, then
\* the callback of onRehydrateStorage (lines 161-168)
Rehydrate ==
    /\ ~auth.isHydrated
    /\ LET merged == IF persisted = Null THEN auth
                     ELSE [auth EXCEPT !.publicKey = persisted.publicKey,
                                       !.sessionExport = persisted.sessionExport]
       IN Set([merged EXCEPT !.isHydrated = TRUE,
                             !.isRestoringSession = (merged.sessionExport # Null)])
    /\ UNCHANGED <<calls, aroundAuthVars>>

\* the state signin and signinWithSession set, and one that leaves isAuthenticated out
signedInUnauthenticated(state, publicKey, keypair, session) ==
    [state EXCEPT !.publicKey = publicKey, !.keypair = keypair, !.session = session,
                  !.sessionExport = safeSessionExport(session)]
signedIn(state, publicKey, keypair, session) ==
    [state EXCEPT !.isAuthenticated = TRUE, !.publicKey = publicKey, !.keypair = keypair,
                  !.session = session, !.sessionExport = safeSessionExport(session)]

\* signin(publicKey, keypair, session)
Signin ==
    /\ auth.isHydrated
    /\ \E publicKey \in SigninKeys, keypair \in Keypairs, session \in Sessions :
          Set(signedIn(auth, publicKey, keypair, session))
    /\ UNCHANGED <<calls, aroundAuthVars>>

\* signinWithSession(publicKey, session)
SigninWithSession ==
    /\ auth.isHydrated
    /\ \E publicKey \in SigninKeys, session \in Sessions :
          Set(signedIn(auth, publicKey, Null, session))
    /\ UNCHANGED <<calls, aroundAuthVars>>

\* logout()
Logout ==
    /\ auth.isHydrated
    /\ Set([defaultAuthData EXCEPT !.isHydrated = TRUE])
    /\ calls' = [c \in DOMAIN calls |->
                    IF calls[c].pc \in {"import", "race"}
                    THEN [calls[c] EXCEPT !.loggedOut = TRUE] ELSE calls[c]]
    /\ UNCHANGED aroundAuthVars

\* the effect of AuthProvider where it does not call restoreSessionFromExport
\* (lines 260-268)
ProviderEffect ==
    /\ auth.isHydrated
    /\ auth.session # Null \/ auth.sessionExport = Null
    /\ auth.isRestoringSession
    /\ Set([auth EXCEPT !.isRestoringSession = FALSE])
    /\ UNCHANGED <<calls, aroundAuthVars>>

\* restoreSessionFromExport() up to its first await (lines 102-105)
RestoreBegin(c) ==
    /\ auth.isHydrated
    /\ calls[c].pc = "idle"
    /\ IF auth.sessionExport = Null \/ auth.session # Null
       THEN /\ calls' = [calls EXCEPT ![c] = [@ EXCEPT !.pc = "ended", !.ended = "returned"]]
            /\ UNCHANGED <<auth, persisted>>
       ELSE /\ calls' = [calls EXCEPT ![c] = [pc |-> "import", publicKey |-> auth.publicKey,
                                               sessionExport |-> auth.sessionExport,
                                               elapsed |-> 0, ended |-> "no",
                                               loggedOut |-> FALSE]]
            /\ Set([auth EXCEPT !.isRestoringSession = TRUE])
    /\ UNCHANGED aroundAuthVars

\* await import("@synonymdev/pubky") has answered: the race with the timer starts
\* (lines 108-116)
RestoreRace(c) ==
    /\ calls[c].pc = "import"
    /\ calls' = [calls EXCEPT ![c] = [@ EXCEPT !.pc = "race", !.elapsed = 0]]
    /\ UNCHANGED <<auth, persisted, aroundAuthVars>>

\* the catch block (lines 126-139), and one that keeps the snapshot
clearedButExport(state) ==
    [state EXCEPT !.isAuthenticated = FALSE, !.publicKey = Null, !.keypair = Null,
                  !.session = Null, !.isRestoringSession = FALSE]
cleared(state) ==
    [state EXCEPT !.isAuthenticated = FALSE, !.publicKey = Null, !.keypair = Null,
                  !.session = Null, !.sessionExport = Null, !.isRestoringSession = FALSE]
Caught(c, why) ==
    /\ calls' = [calls EXCEPT ![c] = [@ EXCEPT !.pc = "ended", !.ended = why]]
    /\ Set(cleared(auth))
    /\ UNCHANGED aroundAuthVars

\* the import is rejected
ImportFails(c) == calls[c].pc = "import" /\ Caught(c, "import failed")

\* sdk.restoreSession is rejected before the timer fires
RestoreRejected(c) == calls[c].pc = "race" /\ Caught(c, "rejected")

\* the timer fires before sdk.restoreSession has answered
RestoreTimeout(c) ==
    /\ calls[c].pc = "race"
    /\ calls[c].elapsed >= restoreTimeout
    /\ Caught(c, "timeout")

\* sdk.restoreSession answers before the timer fires (lines 118-125)
RestoreResolved(c) ==
    /\ calls[c].pc = "race"
    /\ \E restoredSession \in RestoredSessions :
          /\ Set([auth EXCEPT !.isAuthenticated = TRUE, !.publicKey = calls[c].publicKey,
                              !.keypair = Null, !.session = restoredSession,
                              !.sessionExport = safeSessionExport(restoredSession),
                              !.isRestoringSession = FALSE])
          /\ calls' = [calls EXCEPT ![c] = [@ EXCEPT !.pc = "ended", !.ended = "restored"]]
    /\ UNCHANGED aroundAuthVars

\* a second passes for the timers that run; a timer that is due fires first
Tick ==
    /\ \E c \in Calls : calls[c].pc = "race"
    /\ \A c \in Calls : calls[c].pc = "race" => calls[c].elapsed < restoreTimeout
    /\ calls' = [c \in Calls |-> IF calls[c].pc = "race"
                                 THEN [calls[c] EXCEPT !.elapsed = @ + 1] ELSE calls[c]]
    /\ UNCHANGED <<auth, persisted, aroundAuthVars>>

InitAuth ==
    /\ auth = defaultAuthData
    /\ persisted \in PersistedStates
    /\ calls = [c \in Calls |-> NoCall]
    /\ EarlierIdle
    /\ ParserIdle
    /\ LoadIdle
    /\ AfterAuthIdle

RestoreStep(c) ==
    \/ RestoreBegin(c)
    \/ RestoreRace(c)
    \/ ImportFails(c)
    \/ RestoreRejected(c)
    \/ RestoreTimeout(c)
    \/ RestoreResolved(c)

NextAuth ==
    \/ Rehydrate
    \/ Signin
    \/ SigninWithSession
    \/ Logout
    \/ ProviderEffect
    \/ Tick
    \/ \E c \in Calls : RestoreStep(c)

-----------------------------------------------------------------------------
(* The CRUD hooks: useBotConfigs, useServiceConfigs, useDatasets, and the hooks *)
(* of one document, on the QueryClient's cache. A query key is hashed as JSON,  *)
(* so that a key is a sequence of strings and a null public key reads "null".   *)

\* at most this many mutations are started
MaxMutations == 2

\* the auth states the hooks are rendered with: signed out, rehydrated with the session
\* still to be restored, signed in, signed in with a public key of blanks
BlankKey == [z32 |-> " "]
HookUser == [z32 |-> "pkA"]
HookAuthStates ==
    LET hydrated == [defaultAuthData EXCEPT !.isHydrated = TRUE]
        session == [id |-> "s1", exportable |-> TRUE]
    IN {hydrated,
        [hydrated EXCEPT !.publicKey = HookUser, !.sessionExport = safeSessionExport(session),
                         !.isRestoringSession = TRUE],
        signedIn(hydrated, HookUser, Null, session),
        signedIn(hydrated, BlankKey, Null, session)}

\* const storage = auth.session && auth.publicKey && auth.publicKey.trim().length > 0
\*     ? new BotBuilderStorage(auth.session, auth.publicKey) : null
\* and one that does not look at the session
storageWithoutSession(state) ==
    IF state.publicKey # Null /\ trim(<<state.publicKey.z32>>) # <<>>
    THEN [session |-> state.session, publicKey |-> state.publicKey]
    ELSE Null
storage(state) ==
    IF state.session # Null /\ state.publicKey # Null /\ trim(<<state.publicKey.z32>>) # <<>>
    THEN [session |-> state.session, publicKey |-> state.publicKey]
    ELSE Null

listName(kind) ==
    CASE kind = "config" -> "bot-configs"
      [] kind = "service_config" -> "service-configs"
      [] kind = "dataset" -> "datasets"
detailName(kind) ==
    CASE kind = "config" -> "bot-config"
      [] kind = "service_config" -> "service-config"
      [] kind = "dataset" -> "dataset"

\* queryKey: [listName, auth.publicKey] and [detailName, id]
listKey(kind, state) ==
    <<listName(kind), IF state.publicKey = Null THEN "null" ELSE state.publicKey.z32>>
detailKey(kind, id) == <<detailName(kind), id>>
QueryKeys ==
    {<<listName(kind), k>> : kind \in Kinds, k \in {"null", HookUser.z32, BlankKey.z32}}
        \cup {detailKey(kind, id) : kind \in Kinds, id \in Ids}

\* the QueryClient matches a query whose key begins with the filter's key
partialMatchKey(queryKey, key) ==
    Len(key) <= Len(queryKey) /\ key = SubSeq(queryKey, 1, Len(key))
invalidateQueries(cache, key) ==
    [q \in DOMAIN cache |->
        IF cache[q] # Null /\ partialMatchKey(q, key)
        THEN [cache[q] EXCEPT !.isInvalidated = TRUE] ELSE cache[q]]
removeQueries(cache, key) ==
    [q \in DOMAIN cache |-> IF partialMatchKey(q, key) THEN Null ELSE cache[q]]

\* onSuccess of the create, update and delete mutations of a kind, for the document id
onSuccess(kind, cache, id) ==
    CASE kind = "config" ->
            removeQueries(invalidateQueries(cache, <<"bot-configs">>), <<"bot-config", id>>)
      [] kind = "service_config" ->
            removeQueries(invalidateQueries(cache, <<"service-configs">>), <<"service-config", id>>)
      [] kind = "dataset" ->
            invalidateQueries(cache, <<"datasets">>)

\* a value that an if, a || or a ! takes for false
Falsy(v) == v = Undefined \/ v = ""

\* what the form of a service config and the loaded manifest give for the command
FormCommands == {Undefined, "", "cmd"}
Manifests == [kind : ServiceKinds, command : {Undefined, "", "mcmd"}]
NoArgs == [none |-> TRUE]
\* const command = data.command || loadedService.manifest.command
commandOf(data, manifest) == IF Falsy(data.command) THEN manifest.command ELSE data.command
\* the check of lines 206-208, and one that asks for a command of a listener too
commandMissingAnyKind(command, manifest) == Falsy(command)
commandMissing(command, manifest) == Falsy(command) /\ manifest.kind # "listener"

\* the document a create mutation builds, as far as the hooks look at it: its id, its
\* updatedAt, and the command and kind of a service config
created(kind, id, args, seconds) ==
    CASE kind = "config" -> [configId |-> id, updatedAt |-> seconds]
      [] kind = "service_config" ->
            [configId |-> id, updatedAt |-> seconds,
             command |-> commandOf(args.data, args.manifest), kind |-> args.manifest.kind]
      [] kind = "dataset" -> [id |-> id, updatedAt |-> seconds]

notFound(kind) ==
    CASE kind = "config" -> "Config not found"
      [] kind = "service_config" -> "Service config not found"
      [] kind = "dataset" -> "Dataset not found"

\* a hook call, its arguments, the storage calls it made and how it ended
Called(op, kind, id, args, storageCalls, error, shown) ==
    [op |-> op, kind |-> kind, id |-> id, args |-> args, calls |-> storageCalls,
     error |-> error, shown |-> shown]

\* a mutation that throws: onError, the storage and the cache as they were
Rejected(op, kind, id, args, storageCalls, error) ==
    /\ hout' = Called(op, kind, id, args, storageCalls, error, Null)
    /\ UNCHANGED <<hstore, qcache>>

\* a mutation that resolves: the storage after it, and onSuccess
Succeeded(op, kind, id, args, storageCalls, doc) ==
    /\ hout' = Called(op, kind, id, args, storageCalls, "", Null)
    /\ hstore' = [hstore EXCEPT ![kind][id] = doc]
    /\ qcache' = onSuccess(kind, qcache, id)

\* createMutation of the three hooks; generateId gives an id that nothing has yet
CreateMutation(kind) ==
    /\ hclock < MaxMutations
    /\ hclock' = hclock + 1
    /\ \E id \in Ids, written \in BOOLEAN,
          args \in IF kind = "service_config"
                   THEN [data : [command : FormCommands], manifest : Manifests]
                   ELSE {NoArgs} :
          /\ hstore[kind][id] = Null
          /\ qcache[detailKey(kind, id)] = Null
          /\ IF storage(auth) = Null \/ (kind # "config" /\ auth.publicKey = Null)
             THEN Rejected("create", kind, "none", args, <<>>, "Not authenticated")
             ELSE IF kind = "service_config"
                     /\ commandMissing(commandOf(args.data, args.manifest), args.manifest)
             THEN Rejected("create", kind, "none", args, <<>>,
                           "Command is required for this service type")
             ELSE IF ~written
             THEN Rejected("create", kind, id, args, <<"save">>, "write failed")
             ELSE Succeeded("create", kind, id, args, <<"save">>,
                           created(kind, id, args, hclock'))
    /\ UNCHANGED <<auth, persisted, calls, beforeAuthVars, afterHookVars>>

\* updateMutation of the three hooks
UpdateMutation(kind) ==
    /\ hclock < MaxMutations
    /\ hclock' = hclock + 1
    /\ \E id \in Ids, written \in BOOLEAN :
          IF storage(auth) = Null
          THEN Rejected("update", kind, id, NoArgs, <<>>, "Not authenticated")
          ELSE IF hstore[kind][id] = Null
          THEN Rejected("update", kind, id, NoArgs, <<"get">>, notFound(kind))
          ELSE IF ~written
          THEN Rejected("update", kind, id, NoArgs, <<"get", "save">>, "write failed")
          ELSE Succeeded("update", kind, id, NoArgs, <<"get", "save">>,
                        [hstore[kind][id] EXCEPT !.updatedAt = hclock'])
    /\ UNCHANGED <<auth, persisted, calls, beforeAuthVars, afterHookVars>>

\* deleteMutation of the three hooks
DeleteMutation(kind) ==
    /\ hclock < MaxMutations
    /\ hclock' = hclock + 1
    /\ \E id \in Ids, deleted \in BOOLEAN :
          IF storage(auth) = Null
          THEN Rejected("delete", kind, id, NoArgs, <<>>, "Not authenticated")
          ELSE IF ~deleted
          THEN Rejected("delete", kind, id, NoArgs, <<"delete">>, "delete failed")
          ELSE Succeeded("delete", kind, id, NoArgs, <<"delete">>, Null)
    /\ UNCHANGED <<auth, persisted, calls, beforeAuthVars, afterHookVars>>

\* a component reading a query: disabled without a storage; with one, it renders what
\* the cache holds and fetches when the cache holds nothing or the entry is invalidated;
\* an entry that is neither may be refetched as well (it is stale after staleTime)
Read(op, kind, id, key, fetchedData) ==
    /\ IF storage(auth) = Null
       THEN /\ hout' = Called(op, kind, id, NoArgs, <<>>, "disabled", Null)
            /\ UNCHANGED qcache
       ELSE LET entry == qcache[key]
                shown == IF entry = Null THEN Null ELSE entry.data
            IN \/ /\ hout' = Called(op, kind, id, NoArgs, <<op>>, "", shown)
                  /\ qcache' = [qcache EXCEPT ![key] = [data |-> fetchedData, isInvalidated |-> FALSE]]
               \/ /\ entry # Null
                  /\ ~entry.isInvalidated
                  /\ hout' = Called(op, kind, id, NoArgs, <<>>, "", shown)
                  /\ UNCHANGED qcache
    /\ UNCHANGED <<hstore, hclock, auth, persisted, calls, beforeAuthVars, afterHookVars>>

\* listQuery of useBotConfigs, useServiceConfigs, useDatasets
ReadList(kind) ==
    Read("list", kind, "none", listKey(kind, auth),
         [items |-> {hstore[kind][id] : id \in {i \in Ids : hstore[kind][i] # Null}}])

\* useBotConfig(id), useServiceConfig(id), useDataset(id)
ReadDetail(kind) ==
    \E id \in Ids : Read("get", kind, id, detailKey(kind, id), [doc |-> hstore[kind][id]])

InitHooks ==
    /\ auth \in HookAuthStates
    /\ persisted = partialize(auth)
    /\ calls = [c \in Calls |-> NoCall]
    /\ \E open \in Kinds : hstore = [kind \in {open} |-> [id \in Ids |-> Null]]
    /\ qcache = [q \in QueryKeys |-> Null]
    /\ hclock = 0
    /\ hout = None
    /\ AfterHooksIdle
    /\ EarlierIdle
    /\ ParserIdle
    /\ LoadIdle

NextHooks ==
    \/ \E kind \in DOMAIN hstore : CreateMutation(kind)
    \/ \E kind \in DOMAIN hstore : UpdateMutation(kind)
    \/ \E kind \in DOMAIN hstore : DeleteMutation(kind)
    \/ \E kind \in DOMAIN hstore : ReadList(kind)
    \/ \E kind \in DOMAIN hstore : ReadDetail(kind)
    \/ Logout

-----------------------------------------------------------------------------
(* lib/service-loader: validateConfig and validateType. A JavaScript value is a  *)
(* record named after what it is: [str] a string (its characters), [num] a       *)
(* number (in tenths, so that 15 is 1.5), [bool], [arr] an array (its length),   *)
(* [obj] an object, Null, and [undef] for undefined.                             *)

JsUndefined == [undef |-> TRUE]
typeOf(value) ==
    IF "str" \in DOMAIN value THEN "string"
    ELSE IF "num" \in DOMAIN value THEN "number"
    ELSE IF "bool" \in DOMAIN value THEN "boolean"
    ELSE IF "undef" \in DOMAIN value THEN "undefined"
    ELSE "object"
isArray(value) == "arr" \in DOMAIN value
isInteger(value) == value.num % 10 = 0

\* validateType(value, schema, path): the error, or Null
validateType(value, schema, path) ==
    IF value = Null \/ value = JsUndefined THEN Null
    ELSE IF "type" \notin DOMAIN schema THEN Null
    ELSE CASE schema.type = "string" ->
                IF typeOf(value) # "string" THEN <<path, "must be a string">>
                ELSE IF "enum" \in DOMAIN schema /\ value.str \notin schema.enum
                THEN <<path, "must be one of", "enum">>
                ELSE IF "minLength" \in DOMAIN schema /\ Len(value.str) < schema.minLength
                THEN <<path, "must be at least", "minLength", "characters">>
                ELSE IF "maxLength" \in DOMAIN schema /\ Len(value.str) > schema.maxLength
                THEN <<path, "must be at most", "maxLength", "characters">>
                ELSE Null
           [] schema.type \in {"number", "integer"} ->
                IF typeOf(value) # "number" THEN <<path, "must be a number">>
                ELSE IF schema.type = "integer" /\ ~isInteger(value)
                THEN <<path, "must be an integer">>
                ELSE IF "minimum" \in DOMAIN schema /\ value.num < schema.minimum
                THEN <<path, "must be at least", "minimum">>
                ELSE IF "maximum" \in DOMAIN schema /\ value.num > schema.maximum
                THEN <<path, "must be at most", "maximum">>
                ELSE Null
           [] schema.type = "boolean" ->
                IF typeOf(value) # "boolean" THEN <<path, "must be a boolean">> ELSE Null
           [] schema.type = "array" ->
                IF ~isArray(value) THEN <<path, "must be an array">>
                ELSE IF "minItems" \in DOMAIN schema /\ value.arr < schema.minItems
                THEN <<path, "must have at least", "minItems", "items">>
                ELSE IF "maxItems" \in DOMAIN schema /\ value.arr > schema.maxItems
                THEN <<path, "must have at most", "maxItems", "items">>
                ELSE Null
           [] schema.type = "object" ->
                IF typeOf(value) # "object" \/ isArray(value)
                THEN <<path, "must be an object">> ELSE Null
           [] OTHER -> Null

\* the fields of a config, in the order Object.entries gives them
ConfigFields == <<"name", "count">>

\* for (const field of schema.required): the errors of the fields from the i-th on
RECURSIVE requiredErrors(_, _, _)
requiredErrors(config, required, i) ==
    IF i > Len(required) THEN <<>>
    ELSE LET field == required[i]
         IN (IF field \notin DOMAIN config \/ config[field] = JsUndefined
             THEN <<(<<"Missing required field", field>>)>> ELSE <<>>)
                \o requiredErrors(config, required, i + 1)

\* for (const [key, value] of Object.entries(config)): the errors of the properties
\* from the i-th on
RECURSIVE typeErrors(_, _, _)
typeErrors(config, properties, i) ==
    IF i > Len(ConfigFields) THEN <<>>
    ELSE LET key == ConfigFields[i]
             typeError == IF key \in DOMAIN config /\ key \in DOMAIN properties
                          THEN validateType(config[key], properties[key], key)
                          ELSE Null
         IN (IF typeError # Null THEN <<typeError>> ELSE <<>>)
                \o typeErrors(config, properties, i + 1)

validated(errors) == [valid |-> errors = <<>>, errors |-> errors]

validateConfig(config, schema) ==
    IF schema.type # "object" THEN [valid |-> TRUE, errors |-> <<>>]
    ELSE validated(
            (IF "required" \in DOMAIN schema
             THEN requiredErrors(config, schema.required, 1) ELSE <<>>)
            \o (IF "properties" \in DOMAIN schema
                THEN typeErrors(config, schema.properties, 1) ELSE <<>>))

\* the values a config is given, the schemas of a property, the required lists
ConfigValues ==
    {JsUndefined, Null, [str |-> <<>>], [str |-> <<"a">>], [str |-> <<"a", "b">>],
     [num |-> -10], [num |-> 15], [num |-> 500], [num |-> 1500], [bool |-> TRUE],
     [arr |-> 0], [arr |-> 2], [obj |-> TRUE]}
PropertySchemas ==
    {[type |-> "string"], [type |-> "string", minLength |-> 1, maxLength |-> 1],
     [type |-> "string", enum |-> {<<"a">>}],
     [type |-> "number", minimum |-> 0, maximum |-> 1000], [type |-> "number"],
     [type |-> "integer", minimum |-> 0],
     [type |-> "boolean"], [type |-> "array", minItems |-> 1, maxItems |-> 1], [type |-> "object"]}
Configs == UNION {[fields -> ConfigValues] : fields \in SUBSET {"name", "count"}}
RequiredLists == {<<>>, <<"name">>, <<"count">>, <<"name", "count">>}
ObjectSchemas ==
    {[type |-> "object", required |-> r, properties |-> p] :
        r \in RequiredLists,
        p \in UNION {[fields -> PropertySchemas] : fields \in SUBSET {"name", "count"}}}
        \cup {[type |-> "object"], [type |-> "object", required |-> <<"name">>]}
ValidateArgs ==
    [config : Configs, schema : ObjectSchemas \cup {[type |-> "string"]}]

InitValidate ==
    /\ vArg \in ValidateArgs
    /\ vOut = None
    /\ AfterValidateIdle
    /\ HooksIdle
    /\ AuthIdle
    /\ EarlierIdle
    /\ ParserIdle
    /\ LoadIdle

\* validateConfig(config, schema)
ValidateConfig ==
    /\ vOut = None
    /\ vOut' = validateConfig(vArg.config, vArg.schema)
    /\ UNCHANGED <<vArg, hookVars, authVars, beforeAuthVars, afterValidateVars>>

NextValidate == ValidateConfig

-----------------------------------------------------------------------------
(* lib/service-loader: getSchemaDefault. The schema's default and minimum are   *)
(* JavaScript values as above; an object value is [obj], the record of its      *)
(* properties.                                                                  *)

\* a property schema nests at most this deep in a schema
MaxDepth == 2

\* schema.minimum ?? 0, and one that always gives 0
numberDefaultZero(schema) == [num |-> 0]
numberDefault(schema) ==
    IF "minimum" \in DOMAIN schema /\ schema.minimum \notin {Null, JsUndefined}
    THEN schema.minimum ELSE [num |-> 0]

RECURSIVE getSchemaDefault(_)
getSchemaDefault(schema) ==
    IF "default" \in DOMAIN schema /\ schema.default # JsUndefined THEN schema.default
    ELSE IF "type" \notin DOMAIN schema THEN Null
    ELSE CASE schema.type = "string" -> [str |-> <<>>]
           [] schema.type \in {"number", "integer"} -> numberDefault(schema)
           [] schema.type = "boolean" -> [bool |-> FALSE]
           [] schema.type = "array" -> [arr |-> 0]
           [] schema.type = "object" ->
                IF "properties" \in DOMAIN schema
                THEN [obj |-> [key \in DOMAIN schema.properties |->
                                  getSchemaDefault(schema.properties[key])]]
                ELSE [obj |-> <<>>]
           [] OTHER -> Null

\* the schemas getSchemaDefault is given: every type or none, with or without a default
\* and a minimum, and objects whose properties are such schemas
SchemaTypes == {"string", "number", "integer", "boolean", "array", "object", "null"}
SchemaDefaults == {JsUndefined, Null, [str |-> <<"hello">>], [bool |-> FALSE]}
SchemaMinimums == {Null, [num |-> 50]}
NoField == [absent |-> TRUE]
LeafSchema(type, default, minimum) ==
    [f \in {g \in {"type", "default", "minimum"} :
                \/ g = "type" /\ type # ""
                \/ g = "default" /\ default # NoField
                \/ g = "minimum" /\ minimum # NoField} |->
        CASE f = "type" -> type
          [] f = "default" -> default
          [] f = "minimum" -> minimum]
Leaves ==
    {LeafSchema(type, default, minimum) :
        type \in SchemaTypes \cup {""},
        default \in SchemaDefaults \cup {NoField},
        minimum \in SchemaMinimums \cup {NoField}}
PropertyLeaves ==
    {[type |-> "string"], [type |-> "number"], [type |-> "integer", minimum |-> [num |-> 50]],
     [type |-> "boolean", default |-> [bool |-> TRUE]], [type |-> "array"], [minimum |-> [num |-> 50]]}
RECURSIVE DefaultSchemas(_)
DefaultSchemas(depth) ==
    IF depth = 0 THEN Leaves
    ELSE Leaves \cup
         {[type |-> "object", properties |-> p] :
            p \in UNION {[fields -> PropertyLeaves \cup DefaultSchemas(depth - 1)] :
                            fields \in {{}, {"name"}, {"count"}}}}
            \cup {[type |-> "object", properties |-> [name |-> n, count |-> c]] :
                    n \in PropertyLeaves, c \in PropertyLeaves}

InitDefault ==
    /\ dArg \in DefaultSchemas(MaxDepth)
    /\ dOut = None
    /\ AfterDefaultIdle
    /\ ValidateIdle
    /\ HooksIdle
    /\ AuthIdle
    /\ EarlierIdle
    /\ ParserIdle
    /\ LoadIdle

\* getSchemaDefault(schema)
GetSchemaDefault ==
    /\ dOut = None
    /\ dOut' = getSchemaDefault(dArg)
    /\ UNCHANGED <<dArg, validateVars, hookVars, authVars, beforeAuthVars, afterDefaultVars>>

NextDefault == GetSchemaDefault

-----------------------------------------------------------------------------
(* The Indexer singleton under the routes that call it: a request runs up to an   *)
(* await, then any request whose awaited promise has settled runs its next piece. *)
(* All the requests work on the one this.state and on the two JSON files.         *)

\* the server handles at most this many requests to the indexer's routes at a time
MaxTasks == 2
TaskIds == 1..MaxTasks

\* /api/indexer/register (registerUser, then indexUser in the background),
\* /api/indexer/search (search; getStats and getUsers load the same way),
\* /api/indexer/reindex (reindexAll)
TaskOps == {"register", "search", "reindexAll"}

NoTask ==
    [op |-> "none", pc |-> "idle", pk |-> "", phase |-> "", kindIx |-> 0, files |-> <<>>,
     indexed |-> 0, counted |-> {}, inLoop |-> FALSE, same |-> FALSE, iter |-> <<>>, pos |-> 0,
     total |-> 0, registered |-> FALSE, result |-> None]

\* `pubky://${publicKey}${config.botBuilder.serviceConfigsPath}`, and the datasets' one
userDir(pk, kindIx) == <<"pubky://", pk>> \o KindPath(IndexedKinds[kindIx])

\* `${serviceConfigsPath}/${file}`
fullPathOf(pk, kindIx, file) == userDir(pk, kindIx) \o <<"/">> \o file

\* indexUser up to its first await, the listing of the service configs
beginIndexUser(task, pk) ==
    [task EXCEPT !.pk = pk, !.indexed = 0, !.counted = {}, !.kindIx = 1, !.files = <<>>,
                 !.pc = "list"]

\* the for loop skips the files that do not end in .json
RECURSIVE dropNonJson(_)
dropNonJson(files) ==
    IF files # <<>> /\ ~EndsWithTok(files[1], ".json") THEN dropNonJson(Tail(files)) ELSE files

\* a file that cannot be read takes its entity out of the index
readIntoOrOut(entities, kind, pk, fullPath, data, now) ==
    IF data = Null THEN SelectSeq(entities, LAMBDA e : e.uri # fullPath)
    ELSE upsertEntity(entities, Summary(kind, pk, fullPath, data, now))

\* if (data) { this.upsertEntity({ uri: fullPath, ... }) }
readInto(entities, kind, pk, fullPath, data, now) ==
    IF data = Null THEN entities
    ELSE upsertEntity(entities, Summary(kind, pk, fullPath, data, now))

\* user.lastIndexedAt = now, if the user is in the list
touchUser(users, pk, now) ==
    [i \in 1..Len(users) |->
        IF users[i].publicKey = pk THEN [users[i] EXCEPT !.lastIndexedAt = now] ELSE users[i]]

\* indexUser from the head of a for loop over task.files to its next await: the read
\* of the next .json file, the listing of the datasets, or the mkdir of save
nextFile(st, task, now) ==
    LET rest == dropNonJson(task.files)
    IN IF rest # <<>>
       THEN [st |-> st, task |-> [task EXCEPT !.files = rest, !.pc = "read"]]
       ELSE IF task.kindIx < Len(IndexedKinds)
       THEN [st |-> st,
             task |-> [task EXCEPT !.kindIx = @ + 1, !.files = <<>>, !.pc = "list"]]
       ELSE [st |-> [st EXCEPT !.users = touchUser(st.users, task.pk, now)],
             task |-> [task EXCEPT !.files = <<>>, !.pc = "save.users", !.phase = "indexUser"]]

\* the array that reindexAll's for-of walks: this.state.users as long as no load has
\* put another array there, else the array as the load left it behind
walked(st, task) == IF task.same THEN st.users ELSE task.iter

\* reindexAll from the head of its for-of loop to its next await
nextUser(st, task, now) ==
    IF task.pos <= Len(walked(st, task))
    THEN [st |-> st,
          task |-> [beginIndexUser(task, walked(st, task)[task.pos].publicKey)
                        EXCEPT !.inLoop = TRUE]]
    ELSE [st |-> [st EXCEPT !.lastFullIndexAt = now],
          task |-> [task EXCEPT !.inLoop = FALSE, !.same = FALSE, !.iter = <<>>, !.pos = 0,
                                !.indexed = 0, !.counted = {},
                                !.pc = "save.users", !.phase = "reindexAll"]]

\* the request has its answer: its locals are gone
answered(task, result) ==
    [NoTask EXCEPT !.op = task.op, !.pk = task.pk, !.pc = "done",
                   !.registered = task.registered, !.result = result]

\* what runs when load() has returned, up to the next await of the request
afterLoad(st, task, now) ==
    CASE task.op = "search" ->
           [st |-> st, task |-> answered(task, search(st.entities, <<>>))]
      [] task.op = "register" ->
           IF HasUser(st.users, task.pk)
           THEN [st |-> st, task |-> [beginIndexUser(task, task.pk) EXCEPT !.registered = TRUE]]
           ELSE [st |-> [st EXCEPT !.users = registerInList(st.users, task.pk, now)],
                 task |-> [task EXCEPT !.pc = "save.users", !.phase = "registerUser"]]
      [] task.op = "reindexAll" ->
           nextUser(st, [task EXCEPT !.same = TRUE, !.pos = 1, !.total = 0], now)

\* what runs when save() has returned, up to the next await of the request
afterSave(st, task, now) ==
    CASE task.phase = "registerUser" ->
           [st |-> st, task |-> [beginIndexUser(task, task.pk) EXCEPT !.registered = TRUE]]
      [] task.phase = "indexUser" /\ ~task.inLoop ->
           [st |-> st,
            task |-> answered(task, [indexed |-> task.indexed, counted |-> task.counted])]
      [] task.phase = "indexUser" /\ task.inLoop ->
           nextUser(st, [task EXCEPT !.total = @ + task.indexed, !.pos = @ + 1], now)
      [] task.phase = "reindexAll" ->
           [st |-> st,
            task |-> answered(task, [users |-> Len(st.users), entities |-> task.total])]

\* pkA's homeserver holds a service config and a file that is not JSON; pkB's holds
\* nothing yet
PolledStores ==
    {s \in UserStores :
        DOMAIN s = {fullPathOf("pkA", 1, <<"id1", ".json">>),
                    fullPathOf("pkA", 1, <<"notes", ".txt">>)}}

\* the keys that sign in while the server runs: pkB has registered in an earlier run
Registrants == {"pkA"}

\* the server has started; the data directory may hold the users of an earlier run
InitIndexerAsync ==
    /\ hs \in PolledStores
    /\ sdkListFmt \in {"uri", "name"}
    /\ usersFile \in {Absent, UsersJson(<<[publicKey |-> "pkB", registeredAt |-> 1, lastIndexedAt |-> 0]>>)}
    /\ indexFile = Absent
    /\ istate = EmptyState
    /\ iout = None
    /\ clock = 1
    /\ tasks = [t \in TaskIds |-> NoTask]
    /\ resolver = <<>>
    /\ lastWrite = [k \in Kinds, i \in Ids |-> Null]
    /\ out = None
    /\ InitMutations
    /\ gitArg = <<>>
    /\ gitOut = None
    /\ ParserIdle /\ LoadIdle /\ AuthIdle /\ HooksIdle /\ ValidateIdle /\ DefaultIdle

beforeTasksVars == <<parserVars, loadVars, authVars, hookVars, validateVars, defaultVars>>
TaskFrame ==
    UNCHANGED <<sdkListFmt, lastWrite, out, iout, mutVars, gitVars, beforeTasksVars, resolver>>

\* a request arrives and is the first that is not being handled: the route calls
\* load() (registerUser, search and reindexAll start with it), which runs up to the
\* await of its readFile. The requests come within one reading of the clock.
Start(t, op, pk) ==
    /\ tasks[t].pc = "idle"
    /\ \A u \in 1..(t - 1) : tasks[u].pc # "idle"
    /\ tasks' = [tasks EXCEPT ![t] = [NoTask EXCEPT !.op = op, !.pk = pk, !.pc = "load.users"]]
    /\ UNCHANGED <<hs, usersFile, indexFile, istate, clock>>
    /\ TaskFrame

\* load: users.json is read, this.state.users is a new array; readFile(INDEX_FILE)
LoadUsers(t) ==
    /\ tasks[t].pc = "load.users"
    /\ istate' = [istate EXCEPT !.users = load(istate, usersFile, indexFile).users]
    /\ tasks' = [u \in TaskIds |->
                    IF u = t THEN [tasks[u] EXCEPT !.pc = "load.index"]
                    ELSE IF tasks[u].same
                         THEN [tasks[u] EXCEPT !.same = FALSE, !.iter = istate.users]
                         ELSE tasks[u]]
    /\ UNCHANGED <<hs, usersFile, indexFile, clock>>
    /\ TaskFrame

\* load: index.json is read, load returns and its caller goes on
LoadIndex(t) ==
    /\ tasks[t].pc = "load.index"
    /\ LET loaded == load(istate, usersFile, indexFile)
           r == afterLoad([istate EXCEPT !.entities = loaded.entities,
                                         !.lastFullIndexAt = loaded.lastFullIndexAt],
                          tasks[t], clock)
       IN /\ istate' = r.st
          /\ tasks' = [tasks EXCEPT ![t] = r.task]
    /\ UNCHANGED <<hs, usersFile, indexFile, clock>>
    /\ TaskFrame

\* indexUser: pubkyClient.list has answered
Listed(t) ==
    /\ tasks[t].pc = "list"
    /\ LET files == list(hs, sdkListFmt, userDir(tasks[t].pk, tasks[t].kindIx))
           r == nextFile(istate, [tasks[t] EXCEPT !.files = files], clock)
       IN /\ istate' = r.st
          /\ tasks' = [tasks EXCEPT ![t] = r.task]
    /\ UNCHANGED <<hs, usersFile, indexFile, clock>>
    /\ TaskFrame

\* indexUser: pubkyClient.read has answered for the file at the head of task.files
ReadDone(t) ==
    /\ tasks[t].pc = "read"
    /\ LET task == tasks[t]
           kind == IndexedKinds[task.kindIx]
           fullPath == fullPathOf(task.pk, task.kindIx, task.files[1])
           data == read(hs, fullPath)
           st == [istate EXCEPT !.entities = readInto(@, kind, task.pk, fullPath, data, clock)]
           counted == IF data = Null THEN task
                      ELSE [task EXCEPT !.indexed = @ + 1, !.counted = @ \cup {fullPath}]
           r == nextFile(st, [counted EXCEPT !.files = Tail(@)], clock)
       IN /\ istate' = r.st
          /\ tasks' = [tasks EXCEPT ![t] = r.task]
    /\ UNCHANGED <<hs, usersFile, indexFile, clock>>
    /\ TaskFrame

\* save: mkdir is done, users.json is written with this.state.users as it is now
SaveUsers(t) ==
    /\ tasks[t].pc = "save.users"
    /\ usersFile' = savedUsers(istate)
    /\ tasks' = [tasks EXCEPT ![t].pc = "save.index"]
    /\ UNCHANGED <<hs, indexFile, istate, clock>>
    /\ TaskFrame

\* save: index.json is written with this.state.entities as they are now
SaveIndex(t) ==
    /\ tasks[t].pc = "save.index"
    /\ indexFile' = savedIndex(istate)
    /\ tasks' = [tasks EXCEPT ![t].pc = "save.done"]
    /\ UNCHANGED <<hs, usersFile, istate, clock>>
    /\ TaskFrame

\* save returns and its caller goes on
SaveDone(t) ==
    /\ tasks[t].pc = "save.done"
    /\ LET r == afterSave(istate, tasks[t], clock)
       IN /\ istate' = r.st
          /\ tasks' = [tasks EXCEPT ![t] = r.task]
    /\ UNCHANGED <<hs, usersFile, indexFile, clock>>
    /\ TaskFrame

\* the request is over
Finish(t) ==
    /\ tasks[t].pc = "done"
    /\ tasks' = [tasks EXCEPT ![t] = NoTask]
    /\ UNCHANGED <<hs, usersFile, indexFile, istate, clock>>
    /\ TaskFrame

\* a user deletes a document of theirs (BotBuilderStorage.deleteServiceConfig,
\* deleteDataset)
DeleteDocument(address) ==
    /\ address \in DOMAIN hs
    /\ EndsWithTok(address, ".json")
    /\ hs' = [a \in DOMAIN hs \ {address} |-> hs[a]]
    /\ UNCHANGED <<usersFile, indexFile, istate, clock, tasks>>
    /\ TaskFrame

NextIndexerAsync ==
    \/ \E t \in TaskIds : \E pk \in Registrants : Start(t, "register", pk)
    \/ \E t \in TaskIds : \E op \in TaskOps \ {"register"} : Start(t, op, "")
    \/ \E t \in TaskIds : LoadUsers(t)
    \/ \E t \in TaskIds : LoadIndex(t)
    \/ \E t \in TaskIds : Listed(t)
    \/ \E t \in TaskIds : ReadDone(t)
    \/ \E t \in TaskIds : SaveUsers(t)
    \/ \E t \in TaskIds : SaveIndex(t)
    \/ \E t \in TaskIds : SaveDone(t)
    \/ \E t \in TaskIds : Finish(t)
    \/ \E address \in DOMAIN hs : DeleteDocument(address)

-----------------------------------------------------------------------------
(* parseManifestFromSource call by call: parseSchema and resolveRefs call each   *)
(* other, and the calls of parseSchema that have not returned are the call stack, *)
(* the innermost first. A call holds the name, the evaluated literal, how far     *)
(* resolveRefs has walked it and what it has built.                               *)

\* the calls are followed down to this nesting
MaxNesting == 4

\* schema constants that use each other in a cycle, and one that uses the cycle
CyclicSources ==
    {LegacyStmt \o Concat(o) :
       o \in Orders({SchemaStmt("A_SCHEMA", <<"{", "n", ":", "B_SCHEMA", "}">>),
                     SchemaStmt("B_SCHEMA", <<"{", "b", ":", "A_SCHEMA", "}">>),
                     SchemaStmt("X_CONFIG_SCHEMA", <<"{", "p", ":", " ", "A_SCHEMA", ",", "e", ":", "1", "}">>)})}

\* the string at i of an evaluated literal, as resolveRefs takes it (lines 265-266)
refAt(obj, i) ==
    LET close == ClosingQuote(obj, i)
        isValue == ~(close + 1 <= Len(obj) /\ obj[close + 1] = ":")
    IN [isRef |-> isValue /\ close >= i + 2 /\ obj[i + 1] = "__REF:",
        refName |-> IF close = i + 3 THEN obj[i + 2] ELSE "",
        close |-> close]

\* schemaStrings[refName] && !schemas[refName]
toParse(refName, ctx, strings) == HasSchemaString(strings, refName) /\ refName \notin ctx.names

\* return schemas[refName], into what the calling resolveRefs builds
resolvedInto(call, refName, close, ctx) ==
    [call EXCEPT !.i = close + 1,
                 !.result = @ \o (IF refName \in ctx.names THEN ctx.value[refName] ELSE NoText)]

\* resolveRefs walks on, up to a reference whose constant is to be parsed first, or
\* to the end of the literal
RECURSIVE walk(_, _, _)
walk(call, ctx, strings) ==
    IF call.i > Len(call.obj) THEN call
    ELSE IF call.obj[call.i] \in Quotes
         THEN IF refAt(call.obj, call.i).isRef
              THEN IF toParse(refAt(call.obj, call.i).refName, ctx, strings) THEN call
                   ELSE walk(resolvedInto(call, refAt(call.obj, call.i).refName,
                                          refAt(call.obj, call.i).close, ctx), ctx, strings)
              ELSE walk([call EXCEPT !.i = refAt(call.obj, call.i).close + 1,
                                     !.result = @ \o SubSeq(call.obj, call.i,
                                                            refAt(call.obj, call.i).close)],
                        ctx, strings)
         ELSE walk([call EXCEPT !.i = @ + 1, !.result = Append(@, call.obj[call.i])], ctx, strings)

\* parseSchema(name, schemaStrings[name]) is called (lines 242-262): it returns at
\* once, or its resolveRefs starts to walk
called(name, rs, strings, cleanedStr) ==
    IF name \in rs.ctx.names THEN rs
    ELSE IF ~evaluate(cleanedStr).ok
    THEN [rs EXCEPT !.ctx.evaluated = Append(@, [name |-> name, str |-> cleanedStr])]
    ELSE [stack |-> <<walk([name |-> name, obj |-> evaluate(cleanedStr).value, i |-> 1,
                            result |-> <<>>],
                           rs.ctx, strings)>> \o rs.stack,
          ctx |-> [rs.ctx EXCEPT !.evaluated = Append(@, [name |-> name, str |-> cleanedStr])],
          n |-> rs.n]

cleaned(name, strings) ==
    IF HasSchemaString(strings, name)
    THEN replaceRefs(removeComments(SchemaString(strings, name)), strings, 1, name)
    ELSE <<>>

\* the parseSchema that the innermost resolveRefs called has returned: resolveRefs
\* returns schemas[refName] and walks on
resumed(rs, strings) ==
    IF rs.stack = <<>> THEN rs
    ELSE [rs EXCEPT !.stack =
            <<walk(resolvedInto(rs.stack[1], refAt(rs.stack[1].obj, rs.stack[1].i).refName,
                                refAt(rs.stack[1].obj, rs.stack[1].i).close, rs.ctx),
                   rs.ctx, strings)>> \o Tail(rs.stack)]

\* schemas[name] = parsed (line 285)
putParsed(ctx, name, parsed) ==
    [names |-> ctx.names \cup {name},
     order |-> IF name \in ctx.names THEN ctx.order ELSE Append(ctx.order, name),
     value |-> [n \in ctx.names \cup {name} |-> IF n = name THEN parsed ELSE ctx.value[n]],
     evaluated |-> ctx.evaluated]

InitResolver ==
    /\ tsSource \in ReferringSources \cup CyclicSources
    /\ parseOut = None
    /\ resolver = [stack |-> <<>>, ctx |-> NoSchemas, n |-> 1]
    /\ tasks = <<>>
    /\ EarlierIdle
    /\ LoadIdle /\ AuthIdle /\ HooksIdle /\ ValidateIdle /\ DefaultIdle

ResolverFrame == UNCHANGED <<tsSource, earlierVars, loadVars, authVars, hookVars, validateVars,
                             defaultVars, tasks>>

\* the for loop over Object.entries(schemaStrings) calls parseSchema (lines 294-296)
ParseEntry ==
    LET strings == schemaStringsOf(tsSource)
    IN /\ parseOut = None
       /\ resolver.stack = <<>>
       /\ resolver.n <= Len(strings)
       /\ resolver' = called(strings[resolver.n].name, [resolver EXCEPT !.n = @ + 1], strings,
                             cleaned(strings[resolver.n].name, strings))
       /\ UNCHANGED parseOut
       /\ ResolverFrame

\* resolveRefs has come to a reference whose constant is not parsed: it calls
\* parseSchema (lines 267-269)
Descend ==
    LET strings == schemaStringsOf(tsSource)
    IN /\ resolver.stack # <<>>
       /\ Len(resolver.stack) < MaxNesting
       /\ resolver.stack[1].i <= Len(resolver.stack[1].obj)
       /\ \E refName \in {refAt(resolver.stack[1].obj, resolver.stack[1].i).refName} :
            \E after \in {called(refName, resolver, strings, cleaned(refName, strings))} :
               resolver' = IF Len(after.stack) > Len(resolver.stack) THEN after
                           ELSE resumed(after, strings)
       /\ UNCHANGED parseOut
       /\ ResolverFrame

\* resolveRefs has walked the literal: schemas[name] = parsed, parseSchema returns
\* (lines 284-286), into the resolveRefs that called it if there is one
Ascend ==
    LET strings == schemaStringsOf(tsSource)
    IN /\ resolver.stack # <<>>
       /\ resolver.stack[1].i > Len(resolver.stack[1].obj)
       /\ resolver' = resumed([resolver EXCEPT
                                  !.stack = Tail(@),
                                  !.ctx = putParsed(@, resolver.stack[1].name,
                                                    resolver.stack[1].result)],
                              strings)
       /\ UNCHANGED parseOut
       /\ ResolverFrame

\* the for loop is over: the manifest is put together (lines 298-356)
ParseEnd ==
    /\ parseOut = None
    /\ resolver.stack = <<>>
    /\ resolver.n > Len(schemaStringsOf(tsSource))
    /\ parseOut' = manifestFrom(serviceFields(tsSource), resolver.ctx)
    /\ UNCHANGED resolver
    /\ ResolverFrame

NextResolver ==
    \/ ParseEntry
    \/ Descend
    \/ Ascend
    \/ ParseEnd

-----------------------------------------------------------------------------
(* Specifications *)

vars == <<hs, sdkListFmt, lastWrite, out, mut, race, usersFile, indexFile, istate, iout, clock,
          gitArg, gitOut, tsSource, parseOut, req, web, rt, auth, persisted, calls,
          hstore, qcache, hclock, hout, vArg, vOut, dArg, dOut, tasks, resolver>>

InitStore == InitStorage /\ InitMutations /\ InitIndexerIdle

SpecStorage == InitStore /\ [][NextStorage]_vars

SpecUpdate == InitUpdate /\ [][NextUpdate]_vars

SpecIndexer == InitIndexer /\ [][NextIndexer]_vars

SpecSearch == InitSearch /\ [][NextSearch]_vars

SpecGitUrl == InitGitUrl /\ [][NextGitUrl]_vars

SpecParser == InitParser /\ [][NextParser]_vars

SpecLoad == InitLoad /\ [][NextLoad]_vars

SpecAuth == InitAuth /\ [][NextAuth]_vars

\* the event loop runs what is ready: time passes, a pending import settles, a
\* timer that is due fires
FairAuth ==
    /\ WF_vars(Tick)
    /\ \A c \in Calls : WF_vars(RestoreRace(c) \/ ImportFails(c))
    /\ \A c \in Calls : WF_vars(RestoreTimeout(c))

SpecAuthFair == SpecAuth /\ FairAuth

SpecHooks == InitHooks /\ [][NextHooks]_vars

SpecValidate == InitValidate /\ [][NextValidate]_vars

SpecDefault == InitDefault /\ [][NextDefault]_vars
SpecIndexerAsync == InitIndexerAsync /\ [][NextIndexerAsync]_vars
SpecResolver == InitResolver /\ [][NextResolver]_vars

-----------------------------------------------------------------------------
(* Storage facade: read what was last written *)

HasOp(o) == "op" \in DOMAIN out /\ out.op = o

\* the document a read must return after the history lastWrite
Expected(kind, id) ==
    IF lastWrite[kind, id] = Null THEN Null ELSE JsonRoundTrip(lastWrite[kind, id])

\* C1: for each kind and id, get returns the document last saved (as JSON carries
\* it) until the next save or delete of that id, and null once the id is deleted
\* until its next save; neither other ids nor other kinds interfere.
C1_GetReturnsLastWrite ==
    /\ \A kind \in Kinds : \A id \in Ids : getDoc(hs, Me, kind, id) = Expected(kind, id)
    /\ HasOp("get") => out.result = Expected(out.kind, out.id)

\* a get has returned a saved document whose undefined description was dropped
C1_Witness ==
    /\ HasOp("get")
    /\ out.result # Null
    /\ lastWrite[out.kind, out.id].description = Undefined
    /\ \E id \in Ids : id # out.id /\ lastWrite[out.kind, id] # Null

StoredIds(kind) == {i \in Ids : lastWrite[kind, i] # Null}

ListedAsClaimed(kind, docs) ==
    /\ Len(docs) = Cardinality(StoredIds(kind))
    /\ \A i \in StoredIds(kind) :
         Cardinality({j \in 1..Len(docs) : docs[j] = Expected(kind, i)}) = 1
    /\ \A j \in 1..(Len(docs) - 1) : docs[j].updatedAt >= docs[j + 1].updatedAt

\* C2: after any sequence of saves and deletes, the list of a kind holds exactly
\* one document per stored id, each equal to the document last saved under that
\* id, in order of non-increasing updatedAt.
C2_ListReturnsStored ==
    /\ \A kind \in Kinds : ListedAsClaimed(kind, listDocs(hs, sdkListFmt, Me, kind))
    /\ HasOp("list") => ListedAsClaimed(out.kind, out.docs)

\* a list over full-address entries has returned two documents, newest first
C2_Witness ==
    /\ HasOp("list")
    /\ sdkListFmt = "uri"
    /\ Len(out.docs) = 2
    /\ out.docs[1].updatedAt > out.docs[2].updatedAt

-----------------------------------------------------------------------------
(* Update mutations: last writer wins *)

\* a and b updated the same document, their executions overlapped, b saved last
Raced(a, b) ==
    /\ a # b
    /\ mut[a].pc = "done" /\ mut[b].pc = "done"
    /\ mut[a].kind = mut[b].kind /\ mut[a].id = mut[b].id
    /\ race.overlapped
    /\ race.order = <<a, b>>

StoredOf(m) == getDoc(hs, Me, mut[m].kind, mut[m].id)
BeforeOf(m) == read(race.base, DocAddress(Me, mut[m].kind, mut[m].id))
OnlyIn(a, b) == DOMAIN mut[a].data \ DOMAIN mut[b].data

\* the stored document shows none of a's changes: every field that only a
\* changed still has the value it had before the two updates
NoneOfOthers(a, b) ==
    \A f \in OnlyIn(a, b) : FieldOf(StoredOf(b), f) = FieldOf(BeforeOf(b), f)

\* C3 as stated: after two overlapping updates of one id the stored document is
\* the one written by the save that completed last, with none of the other
\* update's changes merged in.
C3_Original ==
    \A a, b \in Mutators :
        Raced(a, b) => /\ StoredOf(b) = JsonRoundTrip(mut[b].updated)
                       /\ NoneOfOthers(a, b)

\* C3 amended: the stored document is the one written by the save that completed
\* last and carries every change of that update; it has none of the other
\* update's changes when the last saver read before the other's save, and it
\* keeps the other's changes (in the fields the last saver did not change) when
\* the last saver read after the other's save.
C3_LastWriterWins ==
    \A a, b \in Mutators :
        Raced(a, b) =>
            /\ StoredOf(b) = JsonRoundTrip(mut[b].updated)
            /\ \A f \in DOMAIN mut[b].data : FieldOf(StoredOf(b), f) = mut[b].data[f]
            /\ mut[b].readAt = 0 => NoneOfOthers(a, b)
            /\ mut[b].readAt = 1 =>
                 \A f \in OnlyIn(a, b) : FieldOf(StoredOf(b), f) = mut[a].data[f]

\* a lost update: b read before a saved, and a's change of a field is gone
C3_Witness ==
    \E a, b \in Mutators :
        /\ Raced(a, b)
        /\ mut[b].readAt = 0
        /\ \E f \in OnlyIn(a, b) : mut[a].data[f] # FieldOf(BeforeOf(b), f)

-----------------------------------------------------------------------------
(* Indexer: registered users and reindexAll *)

HasIOp(o) == "op" \in DOMAIN iout /\ iout.op = o

OnePerKey(users) ==
    \A i, j \in 1..Len(users) : users[i].publicKey = users[j].publicKey => i = j

\* C4: the registered-users list, in memory and in users.json, holds at most one
\* entry per public key; registerUser of a registered key leaves the list as it
\* was (registeredAt included), registerUser of a new key appends exactly one
\* entry, for that key.
C4_RegisterOncePerKey ==
    /\ OnePerKey(istate.users)
    /\ usersFile.exists => OnePerKey(usersFile.users)
    /\ HasIOp("registerUser") =>
         LET before == iout.before
             users == istate.users
         IN /\ usersFile.exists => usersFile.users = users
            /\ IF HasUser(before, iout.pk)
               THEN users = before
               ELSE /\ usersFile.exists
                    /\ Len(users) = Len(before) + 1
                    /\ SubSeq(users, 1, Len(before)) = before
                    /\ users[Len(users)].publicKey = iout.pk

\* a key was registered again at a later time, with two keys registered
C4_Witness ==
    /\ HasIOp("registerUser")
    /\ Len(istate.users) = 2
    /\ \E i \in 1..Len(iout.before) :
         iout.before[i].publicKey = iout.pk /\ iout.before[i].registeredAt < iout.at

\* the .json documents a user has under the directory of a kind
JsonFilesOf(pk, kind) ==
    {a \in DOMAIN hs : /\ StartsWith(a, <<"pubky://", pk>> \o KindPath(kind) \o <<"/">>)
                       /\ EndsWithTok(a, ".json")}

\* C5: reindexAll calls indexUser once for every registered user, the index then
\* holds one summary for each .json service config and dataset of each registered
\* user, and the call returns the number of registered users and the sum of the
\* counts of the indexUser calls.
C5_ReindexAllIndexesEveryDocument ==
    HasIOp("reindexAll") =>
        /\ iout.calls = [i \in 1..Len(istate.users) |-> istate.users[i].publicKey]
        /\ iout.users = Len(istate.users)
        /\ iout.entities = SumSeq(iout.counts)
        /\ \A i \in 1..Len(istate.users) : \A k \in 1..Len(IndexedKinds) :
             \A a \in JsonFilesOf(istate.users[i].publicKey, IndexedKinds[k]) :
                Cardinality({j \in 1..Len(istate.entities) :
                    /\ istate.entities[j].owner = istate.users[i].publicKey
                    /\ istate.entities[j].type = IndexedKinds[k]
                    /\ istate.entities[j].name = hs[a].name
                    /\ istate.entities[j].updatedAt = hs[a].updatedAt}) = 1

-----------------------------------------------------------------------------
(* Indexer.search *)

SeqSet(s) == {s[i] : i \in 1..Len(s)}

\* text is a case-insensitive substring of the name, the description, a tag or the source
TextMatches(e, text) ==
    LET q == toLowerCase(text)
        In(t) == t # NoText /\ includes(toLowerCase(t), q)
    IN In(e.name) \/ In(e.description) \/ In(e.source) \/ \E j \in 1..Len(e.tags) : In(e.tags[j])

Supplied(query, f, empty) == f \in DOMAIN query /\ query[f] # empty
NotBlank(text) == \E i \in 1..Len(text) : text[i] # " "

ExactFilters(e, query) ==
    /\ Supplied(query, "type", "") => e.type = query.type
    /\ Supplied(query, "kind", "") => e.kind = query.kind
    /\ Supplied(query, "owner", "") => e.owner = query.owner

\* every supplied, non-empty filter matches
PassesAsClaimed(e, query) ==
    /\ ExactFilters(e, query)
    /\ Supplied(query, "query", <<>>) => TextMatches(e, query.query)

\* the same, a text of white space only counting as empty
Passes(e, query) ==
    /\ ExactFilters(e, query)
    /\ (Supplied(query, "query", <<>>) /\ NotBlank(query.query)) => TextMatches(e, query.query)

NoTagsFilter(query) == ~Supplied(query, "tags", <<>>)

\* C6 as stated: search returns only entities for which every supplied, non-empty
\* filter among type, kind, owner and text matches, and without a tags filter it
\* counts all of them.
C6_Original ==
    HasIOp("search") =>
        /\ \A e \in SeqSet(iout.result.entities) : PassesAsClaimed(e, iout.query)
        /\ NoTagsFilter(iout.query) =>
              iout.result.total =
                  Cardinality({e \in SeqSet(istate.entities) : PassesAsClaimed(e, iout.query)})

\* C6: search returns only entities that match every supplied filter among type,
\* kind, owner (exact equality) and text (case-insensitive substring of name,
\* description, a tag or source), and without a tags filter it counts all of them;
\* an absent or empty filter, and a text of white space only, restricts nothing.
C6_FiltersConjunctive ==
    HasIOp("search") =>
        /\ \A e \in SeqSet(iout.result.entities) : Passes(e, iout.query)
        /\ NoTagsFilter(iout.query) =>
              iout.result.total =
                  Cardinality({e \in SeqSet(istate.entities) : Passes(e, iout.query)})

\* type, owner and a mixed-case text were supplied; some entities passed, some did not
C6_Witness ==
    /\ HasIOp("search")
    /\ {"type", "owner", "query"} \subseteq DOMAIN iout.query
    /\ iout.query.type # ""
    /\ iout.query.query = <<"A", "b">>
    /\ iout.result.total >= 1
    /\ iout.result.total < Len(istate.entities)
    /\ \E e \in SeqSet(istate.entities) : e.type = iout.query.type /\ e.owner # iout.query.owner

\* C7: with a non-empty tags list, every returned entity has a tag equal to one of
\* the query tags.
C7_TagsMatchExactly ==
    (HasIOp("search") /\ Supplied(iout.query, "tags", <<>>)) =>
        \A e \in SeqSet(iout.result.entities) :
            \E i \in 1..Len(iout.query.tags) : \E j \in 1..Len(e.tags) :
                iout.query.tags[i] = e.tags[j]

\* the page [offset, offset + limit) of the matching entities in an order of
\* non-increasing updatedAt, with total and hasMore
PageOf(result, all, offset, limit) ==
    LET total == Len(all)
        Clip(n) == IF n < 0 THEN 0 ELSE IF n > total THEN total ELSE n
        lo == Clip(offset)
        hi == Clip(offset + limit)
        shown == result.entities
    IN /\ result.total = total
       /\ result.hasMore = (offset + limit < total)
       /\ Len(shown) <= limit
       /\ Len(shown) = (IF hi > lo THEN hi - lo ELSE 0)
       /\ \A i \in 1..Len(shown) :
             /\ shown[i] \in SeqSet(all)
             /\ \A j \in 1..Len(shown) : shown[i] = shown[j] => i = j
             /\ Cardinality({e \in SeqSet(all) : e.updatedAt > shown[i].updatedAt}) <= lo + i - 1
             /\ Cardinality({e \in SeqSet(all) : e.updatedAt >= shown[i].updatedAt}) >= lo + i

ArgOr(query, f, d) == IF f \in DOMAIN query THEN query[f] ELSE d

\* C8 as stated, for offsets and limits that are not negative: the page for the
\* offset (0 when absent) and the limit (20 when absent) that were given.
C8_Original ==
    (/\ HasIOp("search")
     /\ ArgOr(iout.query, "offset", 0) >= 0
     /\ ArgOr(iout.query, "limit", 20) >= 0) =>
        PageOf(iout.result, matching(istate.entities, iout.query),
               ArgOr(iout.query, "offset", 0), ArgOr(iout.query, "limit", 20))

\* a limit of 0 is taken as no limit given
EffectiveLimit(query) ==
    IF ArgOr(query, "limit", 0) = 0 THEN 20 ELSE query.limit

\* C8: for an offset that is absent or not negative and a limit that is absent, 0
\* (taken as absent) or positive, search returns the page [offset, offset + limit)
\* of the matching entities by non-increasing updatedAt, never more than limit of
\* them, with total the number of matching entities and hasMore true exactly when
\* offset + limit < total.
C8_Pagination ==
    (/\ HasIOp("search")
     /\ ArgOr(iout.query, "offset", 0) >= 0
     /\ EffectiveLimit(iout.query) >= 1) =>
        PageOf(iout.result, matching(istate.entities, iout.query),
               ArgOr(iout.query, "offset", 0), EffectiveLimit(iout.query))

\* the second page of one, out of three matching entities
C8_Witness ==
    /\ HasIOp("search")
    /\ {"offset", "limit"} \subseteq DOMAIN iout.query
    /\ iout.query.offset = 1
    /\ iout.query.limit = 1
    /\ iout.result.total = 3
    /\ Len(iout.result.entities) = 1
    /\ iout.result.hasMore

-----------------------------------------------------------------------------
(* parseGitUrl *)

GitHosts == {"github.com", "www.github.com", "gitlab.com", "www.gitlab.com",
             "raw.githubusercontent.com"}

\* the string is an https URL of a GitHub or GitLab host
OnGitHost(s) == Len(s) >= 2 /\ s[1] = "https://" /\ LowerHost(s[2]) \in GitHosts

\* the path segments of an https URL
SegmentsOf(s) == SelectSeq(Drop(s, 2), LAMBDA t : t # "/")

\* C9: parseGitUrl returns null for every string that is not a URL of a GitHub or
\* GitLab host: the empty string, a string that is not a URL, a URL of another host.
C9_NullUnlessGitHost ==
    (gitOut # None /\ ~OnGitHost(gitArg)) => gitOut.result = Null

\* C10: for https://gitlab.com/owner/repo/-/blob/B/P... parseGitUrl returns the
\* provider gitlab, that owner and repo, the branch B and the path P... joined by "/".
C10_GitLabBlob ==
    (/\ gitOut # None
     /\ Len(gitArg) >= 2 /\ gitArg[1] = "https://" /\ gitArg[2] = "gitlab.com"
     /\ Len(SegmentsOf(gitArg)) >= 6
     /\ SubSeq(SegmentsOf(gitArg), 3, 4) = <<"-", "blob">>) =>
        gitOut.result = [provider |-> "gitlab", owner |-> SegmentsOf(gitArg)[1],
                         repo |-> SegmentsOf(gitArg)[2], branch |-> SegmentsOf(gitArg)[5],
                         path |-> join(Drop(SegmentsOf(gitArg), 5))]

\* C11: for an https://github.com URL with at least two path segments parseGitUrl
\* returns the provider github with the first two segments as owner and repo; for
\* /owner/repo alone the branch is "main" and the path is empty; for
\* /owner/repo/tree/B/P... and /owner/repo/blob/B/P... the branch is B and the path
\* the remaining segments joined by "/".
C11_GitHub ==
    (/\ gitOut # None
     /\ Len(gitArg) >= 2 /\ gitArg[1] = "https://" /\ gitArg[2] = "github.com"
     /\ Len(SegmentsOf(gitArg)) >= 2) =>
        LET parts == SegmentsOf(gitArg)
            r == gitOut.result
        IN /\ r # Null
           /\ r.provider = "github" /\ r.owner = parts[1] /\ r.repo = parts[2]
           /\ Len(parts) = 2 => (r.branch = "main" /\ r.path = <<>>)
           /\ (Len(parts) >= 4 /\ parts[3] \in {"tree", "blob"}) =>
                /\ r.branch = parts[4]
                /\ SelectSeq(r.path, LAMBDA t : t # "/") = Drop(parts, 4)
                /\ Len(r.path) = (IF Len(parts) = 4 THEN 0 ELSE 2 * (Len(parts) - 4) - 1)
                /\ \A i \in 1..Len(r.path) : (r.path[i] = "/") = (i % 2 = 0)

\* a blob URL with a branch and a path of two segments was parsed
C11_Witness ==
    /\ gitOut # None
    /\ Len(gitArg) >= 2 /\ gitArg[2] = "github.com"
    /\ Len(SegmentsOf(gitArg)) = 6
    /\ SegmentsOf(gitArg)[3] = "blob"
    /\ gitOut.result # Null
    /\ gitOut.result.branch = "B"
    /\ Len(gitOut.result.path) = 3

\* What C13 says is evaluated: a scanner that knows code, strings and comments
\* apart. It reads the literal from its opening brace, counts the braces of the
\* code only, leaves the comments out and keeps the strings as they are.
literalStep(source, st) ==
    IF st.done \/ st.i > Len(source) THEN st
    ELSE LET c == source[st.i]
             follows(d) == st.i + 1 <= Len(source) /\ source[st.i + 1] = d
             kept == [st EXCEPT !.i = st.i + 1, !.text = Append(st.text, c)]
             skipped == [st EXCEPT !.i = st.i + 1]
         IN IF st.mode = "string"
            THEN IF c = BS /\ st.i + 1 <= Len(source)
                 THEN [st EXCEPT !.i = st.i + 2, !.text = st.text \o <<c, source[st.i + 1]>>]
                 ELSE IF c = st.quote THEN [kept EXCEPT !.mode = "code"] ELSE kept
            ELSE IF st.mode = "line"
                 THEN IF c = NL THEN [st EXCEPT !.mode = "code"] ELSE skipped
            ELSE IF st.mode = "block"
                 THEN IF c = "*" /\ follows("/")
                      THEN [st EXCEPT !.i = st.i + 2, !.mode = "code"] ELSE skipped
            ELSE IF c \in Quotes THEN [kept EXCEPT !.mode = "string", !.quote = c]
            ELSE IF c = "/" /\ follows("*") THEN [st EXCEPT !.i = st.i + 2, !.mode = "block"]
            ELSE IF c = "/" /\ follows("/") THEN [st EXCEPT !.i = st.i + 2, !.mode = "line"]
            ELSE IF c = "{" THEN [kept EXCEPT !.depth = st.depth + 1]
            ELSE IF c = "}" THEN [kept EXCEPT !.depth = st.depth - 1, !.done = (st.depth = 1)]
            ELSE kept
RECURSIVE literalSteps(_, _, _)
literalSteps(source, st, n) ==
    IF n = 0 THEN st
    ELSE IF n = 1 THEN literalStep(source, st)
    ELSE LET mid == literalSteps(source, st, n \div 2)
         IN IF mid.done THEN mid ELSE literalSteps(source, mid, n - n \div 2)
LiteralWithoutComments(source, startIndex) ==
    literalSteps(source, [i |-> startIndex, mode |-> "code", quote |-> "", depth |-> 0,
                          text |-> <<>>, done |-> FALSE], Len(source))

\* the declarations export const NAME = { of a source, and the text evaluated for a name
DeclarationsOf(source) == {i \in 1..Len(source) : schemaStart(source, i) # 0}
EvaluatedFor(name) ==
    {parseOut.evaluated[n].str : n \in {n \in 1..Len(parseOut.evaluated) :
                                           parseOut.evaluated[n].name = name}}

\* C13: the object evaluated for a schema constant is the object literal of the
\* source, from its opening brace to the brace that matches it, without the
\* comments and with the string literals as they are: a brace or a quote inside
\* a comment does not move the end of the literal, and // or /* inside a string
\* is not a comment. Stated for the sources with one schema constant whose
\* literal uses no other constant.
C13_LiteralWithoutComments ==
    (parseOut # None /\ tsSource \in CommentedSources) =>
        \A i \in DeclarationsOf(tsSource) :
            LET lit == LiteralWithoutComments(tsSource, schemaStart(tsSource, i))
            IN lit.done => EvaluatedFor(tsSource[i + 1]) = {lit.text}

\* What C14 says the manifest holds: the literal of a schema constant, each name
\* of a declared schema constant in it replaced by that constant's own object.
\* The constants of the sources do not refer to themselves, so four rounds do.
DeclaredSchemas(source) == {source[i + 1] : i \in DeclarationsOf(source)}
LiteralOf(source, name) ==
    LiteralWithoutComments(source,
        schemaStart(source, First({i \in DeclarationsOf(source) : source[i + 1] = name}))).text
RECURSIVE Resolved(_, _, _)
Resolved(source, name, rounds) ==
    LET lit == LiteralOf(source, name)
    IN Concat([i \in 1..Len(lit) |->
                  IF lit[i] \in Ws THEN <<>>
                  ELSE IF lit[i] \in DeclaredSchemas(source) /\ rounds > 0
                       THEN Resolved(source, lit[i], rounds - 1)
                  ELSE <<lit[i]>>])
ResolvedOrUndefined(source, name) ==
    IF name \in DeclaredSchemas(source)
    THEN Resolved(source, name, Cardinality(SchemaNames)) ELSE NoText
HasPlaceholder(value) == \E i \in 1..Len(value) : value[i] = "__REF:"

\* C14: in the manifest every use of another schema constant as a property value
\* or an array element is replaced by that constant's parsed object, in whatever
\* order the constants are declared, and configSchema and datasetSchemas hold
\* no "__REF:" placeholder.
C14_ReferencesResolved ==
    (parseOut # None /\ tsSource \in ReferringSources) =>
        /\ parseOut.manifest # Null
        /\ parseOut.manifest.configSchema = ResolvedOrUndefined(tsSource, "X_CONFIG_SCHEMA")
        /\ parseOut.manifest.datasetSchemas = ResolvedOrUndefined(tsSource, "X_DATASET_SCHEMAS")
        /\ ~HasPlaceholder(parseOut.manifest.configSchema)
        /\ ~HasPlaceholder(parseOut.manifest.datasetSchemas)

-----------------------------------------------------------------------------
(* The load route: order of the fetches, and the answer *)

\* what the request and the web determine: the text a file is fetched with ("" when
\* the fetch fails), and the manifest each of the two parses has to give
TextOf(file) == IF web[file].kind = "ok" THEN web[file].text ELSE <<>>
UsableUrl == req.json = "object" /\ ~gitUrlRequired(req) /\ parseGitUrl(req.string) # Null
HasRawUrl == UsableUrl /\ getRawUrl(req.string, "mod.ts") # Null
CombinedText == TextOf("constants.ts") \o <<NL>> \o TextOf("service.ts")
CombinedManifest ==
    IF TextOf("constants.ts") = <<>> /\ TextOf("service.ts") = <<>> THEN Null
    ELSE parseManifestFromSource(CombinedText).manifest
ModManifest == parseManifestFromSource(TextOf("mod.ts")).manifest
IsPrefix(s, t) == Len(s) <= Len(t) /\ s = SubSeq(t, 1, Len(s))
AnswerIs(produced) ==
    IF produced = Null THEN rt.response.status = 400
    ELSE rt.response = [status |-> 200, source |-> req.string, manifest |-> produced]

-----------------------------------------------------------------------------
(* The auth store: authenticated means a public key and a session *)

\* C15: isAuthenticated is true exactly when publicKey and session are both
\* non-null, in every state the store reaches: it starts unauthenticated with
\* both null, signin and signinWithSession set isAuthenticated together with a
\* public key and a session, and logout resets isAuthenticated to false and
\* publicKey, keypair, session and sessionExport to null.
C15_AuthenticatedIffKeyAndSession ==
    /\ ~auth.isAuthenticated /\ auth.publicKey = Null /\ auth.session = Null
    /\ [](auth.isAuthenticated <=> (auth.publicKey # Null /\ auth.session # Null))
    /\ [][/\ (Signin \/ SigninWithSession) =>
                 /\ auth'.isAuthenticated
                 /\ auth'.publicKey \in SigninKeys
                 /\ auth'.session \in Sessions
          /\ Logout =>
                 /\ ~auth'.isAuthenticated
                 /\ auth'.publicKey = Null /\ auth'.keypair = Null
                 /\ auth'.session = Null /\ auth'.sessionExport = Null]_vars

\* signed in with a keypair
C15_Witness == auth.isAuthenticated /\ auth.keypair # Null /\ auth.session \in Sessions

-----------------------------------------------------------------------------
(* The auth store: how a restore of the persisted session ends *)

\* the call c ends in this step, having found a sessionExport and no session
RestoreEnds(c) == calls[c].pc \in {"import", "race"} /\ calls'[c].pc = "ended"
StoreCleared(state) ==
    /\ ~state.isAuthenticated
    /\ state.publicKey = Null /\ state.keypair = Null
    /\ state.session = Null /\ state.sessionExport = Null

\* C16: a call of restoreSessionFromExport that finds a persisted sessionExport
\* and no session ends in one of two ways: the restore answers within 8
\* seconds and the store is authenticated with the restored session and the
\* persisted publicKey, or it fails or has not answered after 8 seconds and the
\* store is cleared; either way isRestoringSession becomes false.
C16_RestoreEndsOneWay ==
    /\ [][\A c \in Calls :
            /\ calls[c].pc = "idle" /\ calls'[c].pc = "import" =>
                  /\ persisted # Null
                  /\ calls'[c].publicKey = persisted.publicKey
                  /\ calls'[c].sessionExport = persisted.sessionExport
            /\ RestoreEnds(c) =>
                  /\ ~auth'.isRestoringSession
                  /\ IF calls'[c].ended = "restored"
                     THEN /\ calls[c].elapsed <= restoreTimeout
                          /\ auth'.isAuthenticated
                          /\ auth'.session \in RestoredSessions
                          /\ auth'.publicKey = calls[c].publicKey
                          /\ auth'.publicKey # Null
                     ELSE /\ StoreCleared(auth')
                          /\ calls'[c].ended = "timeout" =>
                                calls[c].elapsed >= restoreTimeout]_vars
    /\ \A c \in Calls :
          (calls[c].pc \in {"import", "race"}) ~> (calls[c].pc = "ended" /\ ~auth.isRestoringSession)

\* a restore that has run into the timer, and the store cleared
C16_Witness ==
    \E c \in Calls : calls[c].ended = "timeout" /\ StoreCleared(auth) /\ ~auth.isRestoringSession
-----------------------------------------------------------------------------
(* The CRUD hooks: what a successful mutation does to the cache *)

\* a query that the next read fetches anew: nothing cached for it, or invalidated
Refetched(entry) == entry = Null \/ entry.isInvalidated

\* a step in which a mutation of a document of this kind succeeded
MutationSucceeds(kind) ==
    /\ hclock' = hclock + 1
    /\ hout'.kind = kind
    /\ hout'.error = ""

\* C17: after a create, update or delete of the document X of a kind succeeds, the
\* cached list query of the kind and the cached detail query for X are each
\* invalidated or removed, so that neither is served from what was read before
C17_MutationRefreshesListAndDetail ==
    [][\A kind \in Kinds :
          MutationSucceeds(kind) =>
              /\ Refetched(qcache'[listKey(kind, auth)])
              /\ Refetched(qcache'[detailKey(kind, hout'.id)])]_vars
-----------------------------------------------------------------------------
(* The CRUD hooks: no storage without a session and a public key *)

\* C18: a storage exists only for an auth state with a session and a public key; while
\* either is missing a read of the list or of a document stays disabled, and a create,
\* update or delete rejects with "Not authenticated"; none of them calls the storage,
\* and the documents and the cache stay as they were
C18_NoStorageWithoutSessionAndKey ==
    [][/\ storage(auth) # Null => auth.session # Null /\ auth.publicKey # Null
       /\ (auth.session = Null \/ auth.publicKey = Null) =>
             /\ hstore' = hstore
             /\ qcache' = qcache
             /\ hclock' # hclock =>
                   /\ hout'.op \in {"create", "update", "delete"}
                   /\ hout'.error = "Not authenticated"
                   /\ hout'.calls = <<>>
             /\ (hclock' = hclock /\ hout' # hout) =>
                   /\ hout'.op \in {"list", "get"}
                   /\ hout'.error = "disabled"
                   /\ hout'.calls = <<>>]_vars

\* signed out with documents stored: a delete has been rejected, and a read was disabled
C18_Witness ==
    /\ auth.session = Null
    /\ hout # None
    /\ hout.op = "delete"
    /\ hout.error = "Not authenticated"
    /\ hstore[hout.kind][hout.id] # Null
    /\ qcache[detailKey(hout.kind, hout.id)] # Null
-----------------------------------------------------------------------------
(* useServiceConfigs: a service config needs a command unless it is a listener *)

\* a step in which a signed-in user's create of a service config ran
ServiceConfigCreated ==
    /\ storage(auth) # Null
    /\ hclock' = hclock + 1
    /\ hout'.op = "create"
    /\ hout'.kind = "service_config"
NoCommand(args) == Falsy(args.data.command) /\ Falsy(args.manifest.command)

\* C19: the create of a service config with no command, neither in the form nor in the
\* manifest, fails with "Command is required for this service type" and saves nothing
\* when the manifest's kind is single_command or command_flow; for a listener the
\* config is saved without a command
C19_CommandRequiredUnlessListener ==
    [][(ServiceConfigCreated /\ NoCommand(hout'.args)) =>
          IF hout'.args.manifest.kind \in {"single_command", "command_flow"}
          THEN /\ hout'.error = "Command is required for this service type"
               /\ hout'.calls = <<>>
               /\ hstore' = hstore
          ELSE /\ hout'.calls = <<"save">>
               /\ hout'.error \in {"", "write failed"}
               /\ hout'.error = "" =>
                     /\ hstore'["service_config"][hout'.id] # Null
                     /\ Falsy(hstore'["service_config"][hout'.id].command)
                     /\ hstore'["service_config"][hout'.id].kind = "listener"]_vars

\* a listener is stored without a command, and the create of a command_flow service
\* without one has just been rejected
C19_Witness ==
    /\ hout # None
    /\ hout.op = "create"
    /\ hout.kind = "service_config"
    /\ hout.args.manifest.kind = "command_flow"
    /\ NoCommand(hout.args)
    /\ hout.error = "Command is required for this service type"
    /\ \E id \in Ids :
          /\ hstore["service_config"][id] # Null
          /\ hstore["service_config"][id].kind = "listener"
          /\ Falsy(hstore["service_config"][id].command)
-----------------------------------------------------------------------------
(* validateConfig: what is rejected and what is accepted *)

\* a field the config supplies: a property of it whose value is not undefined (null is
\* a value)
SuppliedField(config, key) == key \in DOMAIN config /\ config[key] # JsUndefined
\* a value is of the type a schema declares
OfType(value, type) ==
    CASE type = "string" -> "str" \in DOMAIN value
      [] type = "number" -> "num" \in DOMAIN value
      [] type = "integer" -> "num" \in DOMAIN value /\ value.num % 10 = 0
      [] type = "boolean" -> "bool" \in DOMAIN value
      [] type = "array" -> "arr" \in DOMAIN value
      [] type = "object" -> "obj" \in DOMAIN value
      [] type = "null" -> value = Null
BelowOrAbove(value, schema) ==
    /\ "num" \in DOMAIN value
    /\ \/ "minimum" \in DOMAIN schema /\ value.num < schema.minimum
       \/ "maximum" \in DOMAIN schema /\ value.num > schema.maximum
Conforms(value, schema) ==
    /\ "type" \in DOMAIN schema => OfType(value, schema.type)
    /\ ~BelowOrAbove(value, schema)
    /\ ("str" \in DOMAIN value /\ "enum" \in DOMAIN schema) => value.str \in schema.enum
    /\ ("str" \in DOMAIN value /\ "minLength" \in DOMAIN schema) => Len(value.str) >= schema.minLength
    /\ ("str" \in DOMAIN value /\ "maxLength" \in DOMAIN schema) => Len(value.str) <= schema.maxLength
    /\ ("arr" \in DOMAIN value /\ "minItems" \in DOMAIN schema) => value.arr >= schema.minItems
    /\ ("arr" \in DOMAIN value /\ "maxItems" \in DOMAIN schema) => value.arr <= schema.maxItems
RequiredOf(schema) ==
    IF "required" \in DOMAIN schema THEN {schema.required[i] : i \in DOMAIN schema.required} ELSE {}
\* the properties the config supplies that the schema has a property schema for
Described(config, schema) ==
    IF "properties" \in DOMAIN schema
    THEN {key \in DOMAIN config : SuppliedField(config, key) /\ key \in DOMAIN schema.properties}
    ELSE {}
ValidateClaim(config, schema, result) ==
    LET missing == \E field \in RequiredOf(schema) : ~SuppliedField(config, field)
        wrongType == \E key \in Described(config, schema) :
                        /\ "type" \in DOMAIN schema.properties[key]
                        /\ ~OfType(config[key], schema.properties[key].type)
        outOfRange == \E key \in Described(config, schema) : BelowOrAbove(config[key], schema.properties[key])
        conforming == \A key \in Described(config, schema) : Conforms(config[key], schema.properties[key])
    IN /\ (missing \/ wrongType \/ outOfRange) => (~result.valid /\ result.errors # <<>>)
       /\ (~missing /\ conforming) => (result.valid /\ result.errors = <<>>)

\* C20: for an object schema, validateConfig returns valid = false and errors when a
\* required field is missing from the config, when a supplied value is not of the type
\* its property schema declares, or when a supplied number is below the minimum or
\* above the maximum; it returns valid = true and no errors when every required field
\* is there and every supplied property conforms to its property schema
C20_ValidateConfig ==
    (vOut # None /\ vArg.schema.type = "object") =>
        ValidateClaim(vArg.config, vArg.schema, vOut)
-----------------------------------------------------------------------------
(* getSchemaDefault: the default of a schema *)

DefaultDefined(schema) == "default" \in DOMAIN schema /\ schema.default # JsUndefined
TypeIn(schema, types) == "type" \in DOMAIN schema /\ schema.type \in types
MinimumDeclared(schema) ==
    "minimum" \in DOMAIN schema /\ schema.minimum \notin {Null, JsUndefined}
DeclaredProperties(schema) ==
    IF "properties" \in DOMAIN schema THEN DOMAIN schema.properties ELSE {}

\* value is the default the claim gives for the schema, a number's default being 0
\* always, or the minimum where the schema declares one
RECURSIVE IsDefaultOf(_, _, _)
IsDefaultOf(value, schema, minimumCounts) ==
    IF DefaultDefined(schema) THEN value = schema.default
    ELSE IF TypeIn(schema, {"string"}) THEN value = [str |-> <<>>]
    ELSE IF TypeIn(schema, {"number", "integer"})
    THEN value = IF minimumCounts /\ MinimumDeclared(schema) THEN schema.minimum ELSE [num |-> 0]
    ELSE IF TypeIn(schema, {"boolean"}) THEN value = [bool |-> FALSE]
    ELSE IF TypeIn(schema, {"array"}) THEN value = [arr |-> 0]
    ELSE IF TypeIn(schema, {"object"})
    THEN /\ DOMAIN value = {"obj"}
         /\ DOMAIN value.obj = DeclaredProperties(schema)
         /\ \A key \in DeclaredProperties(schema) :
               IsDefaultOf(value.obj[key], schema.properties[key], minimumCounts)
    ELSE value = Null

-----------------------------------------------------------------------------
(* The indexer under overlapping requests: a registered user stays registered *)

\* pk is in the registered-users list, in memory and in users.json
Registered(pk) ==
    /\ HasUser(istate.users, pk)
    /\ usersFile # Absent
    /\ HasUser(usersFile.users, pk)

\* C22: once registerUser(pk) has returned to the register route, pk is in
\* this.state.users and in users.json in every later state, whatever the other
\* requests do to the shared indexer meanwhile
C22_RegisteredUserStays ==
    \A t \in TaskIds : tasks[t].registered => Registered(tasks[t].pk)

-----------------------------------------------------------------------------
(* The indexer under overlapping requests: what indexUser counted is persisted *)

\* the uris of the entities in index.json
PersistedUris ==
    IF indexFile = Absent THEN {}
    ELSE {indexFile.entities[i].uri : i \in 1..Len(indexFile.entities)}

\* the indexUser call of request t returns in this step
IndexUserReturns(t) ==
    /\ tasks[t].pc = "save.done"
    /\ tasks[t].phase = "indexUser"
    /\ tasks'[t].pc # "save.done"

\* C23: every entity that an indexUser call has upserted and counted is in index.json
\* when the call returns, whatever requests have reloaded the state meanwhile
C23_CountedIsPersisted ==
    [][\A t \in TaskIds : IndexUserReturns(t) => tasks[t].counted \subseteq PersistedUris']_vars

-----------------------------------------------------------------------------
(* The index: one entity per uri *)

SeqUris(entities) == [i \in 1..Len(entities) |-> entities[i].uri]
UriSet(entities) == {entities[i].uri : i \in 1..Len(entities)}
OnePerUri(entities) ==
    \A i, j \in 1..Len(entities) : entities[i].uri = entities[j].uri => i = j

\* the addresses at which indexUser(pk) finds a document
ReadBy(pk) ==
    UNION {{fullPathOf(pk, k, file) :
               file \in {f \in UriSet([i \in 1..Len(list(hs, sdkListFmt, userDir(pk, k))) |->
                                          [uri |-> list(hs, sdkListFmt, userDir(pk, k))[i]]]) :
                           /\ EndsWithTok(f, ".json")
                           /\ read(hs, fullPathOf(pk, k, f)) # Null}} :
           k \in 1..Len(IndexedKinds)}

\* C24: no two indexed entities have the same uri, in memory or in index.json;
\* indexUser replaces the entity of a uri that is in the index where it is, and adds
\* one entity at the end for a uri that is not
C24_OneEntityPerUri ==
    [][/\ OnePerUri(istate.entities)
       /\ OnePerUri(istate'.entities)
       /\ indexFile'.exists => OnePerUri(indexFile'.entities)
       /\ ("op" \in DOMAIN iout' /\ iout'.op = "indexUser") =>
            /\ IsPrefix(SeqUris(istate.entities), SeqUris(istate'.entities))
            /\ UriSet(istate'.entities) = UriSet(istate.entities) \cup ReadBy(iout'.pk)]_vars

\* a user was indexed again later: their entities were replaced ahead of an entity
\* of another user that was indexed in between
C24_Witness ==
    /\ HasIOp("indexUser")
    /\ \E i, j \in 1..Len(istate.entities) :
         i < j /\ istate.entities[i].indexedAt > istate.entities[j].indexedAt

-----------------------------------------------------------------------------
(* The index: indexing a user again removes nothing *)

\* the search of request t answers in this step
SearchAnswers(t) ==
    /\ tasks[t].op = "search"
    /\ tasks[t].pc = "load.index"
    /\ tasks'[t].pc = "done"

\* C25: indexUser only inserts or replaces entities: no step of it takes a uri out
\* of the entities in memory, no uri ever leaves index.json, and a search returns
\* the entities of index.json, those of documents deleted since included
C25_ReindexRemovesNothing ==
    [][/\ PersistedUris \subseteq PersistedUris'
       /\ \A t \in TaskIds :
            (tasks[t].pc \in {"list", "read"} /\ tasks'[t] # tasks[t]) =>
                UriSet(istate.entities) \subseteq UriSet(istate'.entities)
       /\ \A t \in TaskIds :
            SearchAnswers(t) => PersistedUris \subseteq UriSet(tasks'[t].result.entities)]_vars

\* pkA has deleted the service config that was indexed, the register route has
\* indexed pkA again and found nothing, and a search has returned the entity
C25_Witness ==
    LET deleted == fullPathOf("pkA", 1, <<"id1", ".json">>)
    IN /\ deleted \notin DOMAIN hs
       /\ deleted \in PersistedUris
       /\ \E t \in TaskIds : /\ tasks[t].op = "register" /\ tasks[t].pc = "done"
                             /\ tasks[t].result.indexed = 0
       /\ \E t \in TaskIds : /\ tasks[t].op = "search" /\ tasks[t].pc = "done"
                             /\ deleted \in UriSet(tasks[t].result.entities)

-----------------------------------------------------------------------------
(* indexUser and BotBuilderStorage: the address of a listed file *)

\* C26: the address indexUser reads a listed .json file from, which becomes the
\* entity's uri, is the address BotBuilderStorage reads for that entry, whether the
\* listing gives bare names or full pubky:// URIs
C26_SameAddressAsStorage ==
    \A t \in TaskIds :
        tasks[t].pc = "read" =>
            fullPathOf(tasks[t].pk, tasks[t].kindIx, tasks[t].files[1])
                = ListedAddress(userDir(tasks[t].pk, tasks[t].kindIx), tasks[t].files[1])

-----------------------------------------------------------------------------
(* The auth store: logout and a restore that is still pending *)

\* the restore of call c, begun before a logout, ends in this step, and nobody has
\* signed in since the logout
EndsAfterLogout(c) ==
    /\ calls[c].loggedOut
    /\ RestoreEnds(c)
    /\ ~auth.isAuthenticated
    /\ auth.session = Null

\* C27: logout is final: a restoreSessionFromExport call that was pending when
\* logout ran leaves isAuthenticated false and session null when it completes
C27_LogoutIsFinal ==
    [][\A c \in Calls :
          EndsAfterLogout(c) => ~auth'.isAuthenticated /\ auth'.session = Null]_vars

-----------------------------------------------------------------------------
(* parseSchema and resolveRefs: the calls come to an end *)

\* no constant is being parsed twice at once
NoReentry ==
    \A i, j \in 1..Len(resolver.stack) :
        resolver.stack[i].name = resolver.stack[j].name => i = j

\* C28: parsing the schema constants terminates, cyclic references included: a
\* constant whose parseSchema has not returned is not parsed again, so the calls of
\* parseSchema nest no deeper than there are schema constants
C28_ParsingTerminates ==
    /\ NoReentry
    /\ Len(resolver.stack) <= Len(schemaStringsOf(tsSource))

-----------------------------------------------------------------------------
(* ServiceConfigSearch: the Discover tab and the My Configs tab *)

\* the indexed service configs that the My Configs filter of the dialog accepts for
\* the kind and the text of the query
AcceptedAsMine(entities, query) ==
    SelectSeq(filterByQuery(filterByType(entities, query), query),
              LAMBDA e : acceptsMine(query.kind, e.kind))

\* C29: when a command service is added (kind "command"), the search behind the
\* Discover tab returns the indexed service configs whose kind is single_command
\* or command_flow, the kinds the My Configs tab accepts
C29_DiscoverFindsCommands ==
    (HasIOp("search") /\ iout.query \in DialogQueries /\ iout.query.kind = "command") =>
        UriSet(iout.result.entities) = UriSet(AcceptedAsMine(istate.entities, iout.query))

====
